---- MODULE Spec2Model ----
(***************************************************************************)
(* State-machine model of the cFork_OPR wargame rules engine: unit         *)
(* factory, wound application, morale, attack sequence, objective control, *)
(* AI decision and the turn/round engine.                                  *)
(*                                                                         *)
(* Conventions                                                             *)
(*  - a cluster is a record; `clusters` maps a cluster id (its index) to   *)
(*    the cluster object, which lives on after it left its roster;         *)
(*  - `clusterCache` holds the two rosters as sequences of cluster ids;    *)
(*  - lengths are in hundredths of an inch and coordinates are integers;  *)
(*    distances are compared by their squares, which is exact;             *)
(*  - weapon goodness is scaled by 4 (1 + 0.25*ap becomes 4 + ap).         *)
(***************************************************************************)
EXTENDS Integers, Sequences, FiniteSets, TLC

VARIABLES
    clusters,                         \* id -> cluster object
    clusterCache,                     \* [attackers, defenders] -> Seq(id)
    objectives,                       \* Seq of [x, controller]
    currentTurn,                      \* "attackers" | "defenders"
    currentRound,
    playerWhoFinishedLastRoundFirst,  \* side or "null"
    playerWhoStartedCurrentRound,
    pc,                               \* position of the running handler
    act,                              \* the activation in progress
    last,                             \* what the last completed operation did
    hist                              \* history of the current round

vars == <<clusters, clusterCache, objectives, currentTurn, currentRound,
          playerWhoFinishedLastRoundFirst, playerWhoStartedCurrentRound,
          pc, act, last, hist>>

Sides == {"attackers", "defenders"}
Null == "null"
Die == 1..6

\* the side itself
SameSide(side) == side

Other(side) == IF side = "attackers" THEN "defenders" ELSE "attackers"

Max(a, b) == IF a >= b THEN a ELSE b
Min(a, b) == IF a <= b THEN a ELSE b

RECURSIVE SumSeq(_)
SumSeq(s) == IF s = <<>> THEN 0 ELSE Head(s) + SumSeq(Tail(s))

RECURSIVE ConcatAll(_)
ConcatAll(ss) == IF ss = <<>> THEN <<>> ELSE Head(ss) \o ConcatAll(Tail(ss))

SeqToSet(s) == {s[i] : i \in 1..Len(s)}

(***************************************************************************)
(* Bounds of the model                                                     *)
(***************************************************************************)
MaxModels == 2      \* models per sub-unit drawn for the wound checks
MaxTough == 2       \* Tough(N) drawn for the wound checks
MaxPackets == 2     \* wound packets in one applyWoundsToCluster call
MaxPacket == 2      \* size of one wound packet (Deadly)
MaxAP == 2          \* weapon AP drawn from -MaxAP..MaxAP for the attack checks
MaxNearUnits == 2   \* clusters per side placed around the objective

(***************************************************************************)
(* Parsed data: weapons, special rules, sub-unit definitions, unit groups  *)
(***************************************************************************)
NoWeaponSpecial ==
    [blast |-> 0, deadly |-> 0, reliable |-> FALSE, rending |-> FALSE,
     flux |-> FALSE]

Weapon(name, amount, range, attacks, ap, special) ==
    [name |-> name, amount |-> amount, range |-> range, attacks |-> attacks,
     ap |-> ap, special |-> special]

SpecialFlags ==
    {"hero", "relentless", "fearless", "furious", "furiousOriginal",
     "battleDrills", "holdTheLine", "robot", "shieldWall", "goodShot",
     "selfRepair", "medicalTraining", "precisionShots", "fast", "slow"}

\* special rules of a sub-unit: each flag of `flags` set, Tough(tough), Fear(fear)
\* (0 stands for a rule that is absent).
Special(flags, tough, fear) ==
    [f \in SpecialFlags |-> f \in flags] @@ [tough |-> tough, fear |-> fear]

SubUnit(name, models, quality, defense, weapons, special) ==
    [name |-> name, models |-> models, quality |-> quality,
     defense |-> defense, weapons |-> weapons, special |-> special]

UnitGroup(name, subUnits) == [name |-> name, subUnits |-> subUnits]

(***************************************************************************)
(* Unit factory (unit_factory.js)                                          *)
(***************************************************************************)
DIA_IN == 126

\* calculateWeaponGoodness, times 4
calculateWeaponGoodness(weapon) ==
    LET totalAttacks == weapon.attacks * weapon.amount
        blast == IF weapon.special.blast = 0 THEN 1 ELSE weapon.special.blast
        deadly == IF weapon.special.deadly = 0 THEN 1 ELSE weapon.special.deadly
        apMultiplier == 4 + weapon.ap
    IN  totalAttacks * blast * deadly * apMultiplier

\* Array(spec.amount).fill(null).map(() => ({...spec, amount: 1, goodness})),
\* each copy keyed for the descending sort by goodness
IndividualCopies(spec) ==
    [i \in 1..spec.amount |->
        [key |-> 0 - calculateWeaponGoodness([spec EXCEPT !.amount = 1]),
         val |-> [spec EXCEPT !.amount = 1]]]

\* stable insertion of the keyed entry e into s, sorted by ascending key
RECURSIVE InsertSorted(_, _)
InsertSorted(e, s) ==
    IF s = <<>> THEN <<e>>
    ELSE IF e.key < Head(s).key THEN <<e>> \o s
    ELSE <<Head(s)>> \o InsertSorted(e, Tail(s))

\* Array.prototype.sort((a, b) => a.key - b.key), which is stable
RECURSIVE SortKeyed(_)
SortKeyed(s) ==
    IF s = <<>> THEN <<>>
    ELSE InsertSorted(s[Len(s)], SortKeyed(SubSeq(s, 1, Len(s) - 1)))

Vals(s) == [i \in 1..Len(s) |-> s[i].val]

RECURSIVE ConcatVals(_)
ConcatVals(s) == IF s = <<>> THEN <<>> ELSE Head(s).val \o ConcatVals(Tail(s))

\* allIndividualWeapons after its sort by descending goodness
AllIndividualWeapons(originalWeapons) ==
    SortKeyed(ConcatAll([i \in 1..Len(originalWeapons) |->
                           IndividualCopies(originalWeapons[i])]))

\* virtualLoadouts[m - 1] after the forEach: the weapons at the indexes that are
\* m - 1 modulo originalModels, keyed by their total goodness
VirtualLoadout(all, originalModels, m) ==
    [key |-> SumSeq([i \in 1..Len(all) |->
                IF (i - 1) % originalModels = m - 1 THEN 0 - all[i].key ELSE 0]),
     val |-> Vals(SelectSeq([i \in 1..Len(all) |-> [val |-> all[i].val, i |-> i]],
                            LAMBDA e : (e.i - 1) % originalModels = m - 1))]

VirtualLoadouts(all, originalModels) ==
    [m \in 1..originalModels |-> VirtualLoadout(all, originalModels, m)]

\* the weaponMap of getUpdatedWeaponLoadoutForSubUnit: one entry per distinct
\* weapon, in order of first appearance, with the count of its copies
RECURSIVE MergeWeapons(_, _)
MergeWeapons(finalWeapons, acc) ==
    IF finalWeapons = <<>> THEN acc
    ELSE IF \E i \in 1..Len(acc) : [acc[i] EXCEPT !.amount = 1] = Head(finalWeapons)
    THEN MergeWeapons(Tail(finalWeapons),
            [i \in 1..Len(acc) |->
                IF [acc[i] EXCEPT !.amount = 1] = Head(finalWeapons)
                THEN [acc[i] EXCEPT !.amount = @ + 1] ELSE acc[i]])
    ELSE MergeWeapons(Tail(finalWeapons), Append(acc, Head(finalWeapons)))

\* the loadout made of the slots of lowest total goodness
LoadoutOfWeakestSlots(subUnitState) ==
    IF subUnitState.currentModelsInSubUnit <= 0 THEN <<>>
    ELSE IF subUnitState.currentModelsInSubUnit
                >= subUnitState.originalSubUnitData.models
    THEN subUnitState.originalSubUnitData.weapons
    ELSE MergeWeapons(
           ConcatVals(SubSeq(
             SortKeyed(VirtualLoadouts(
                 AllIndividualWeapons(subUnitState.originalSubUnitData.weapons),
                 subUnitState.originalSubUnitData.models)),
             1, subUnitState.currentModelsInSubUnit)),
           <<>>)

getUpdatedWeaponLoadoutForSubUnit(subUnitState) ==
    IF subUnitState.currentModelsInSubUnit <= 0 THEN <<>>
    ELSE IF subUnitState.currentModelsInSubUnit
                >= subUnitState.originalSubUnitData.models
    THEN subUnitState.originalSubUnitData.weapons
    ELSE MergeWeapons(
           ConcatVals(SubSeq(
             SortKeyed(VirtualLoadouts(
                 AllIndividualWeapons(subUnitState.originalSubUnitData.weapons),
                 subUnitState.originalSubUnitData.models)),
             subUnitState.originalSubUnitData.models
                 - subUnitState.currentModelsInSubUnit + 1,
             subUnitState.originalSubUnitData.models)),
           <<>>)

\* the goodness summed over the ranged (range > 0) or the other weapons
GoodnessOf(weapons, ranged) ==
    SumSeq([k \in 1..Len(weapons) |->
              IF (weapons[k].range > 0) = ranged
              THEN calculateWeaponGoodness(weapons[k]) ELSE 0])

AllWeapons(unitGroup) ==
    ConcatAll([i \in 1..Len(unitGroup.subUnits) |-> unitGroup.subUnits[i].weapons])

\* a classification with a hybrid type for equal goodness
ClassifyWithHybrid(meleeGoodness, rangedGoodness) ==
    IF rangedGoodness = 0 /\ meleeGoodness > 0 THEN "melee"
    ELSE IF meleeGoodness = 0 /\ rangedGoodness > 0 THEN "shooting"
    ELSE IF meleeGoodness = rangedGoodness THEN "hybrid"
    ELSE IF meleeGoodness > rangedGoodness THEN "melee-focus"
    ELSE "shooting-focus"

ClassifyByGoodness(meleeGoodness, rangedGoodness) ==
    IF rangedGoodness = 0 /\ meleeGoodness > 0 THEN "melee"
    ELSE IF meleeGoodness = 0 /\ rangedGoodness > 0 THEN "shooting"
    ELSE IF meleeGoodness > rangedGoodness THEN "melee-focus"
    ELSE "shooting-focus"

classifyUnitType(unitGroup) ==
    ClassifyByGoodness(GoodnessOf(AllWeapons(unitGroup), FALSE),
                       GoodnessOf(AllWeapons(unitGroup), TRUE))

RECURSIVE MaxSeq(_)
MaxSeq(s) == IF s = <<>> THEN 0 ELSE Max(Head(s), MaxSeq(Tail(s)))

getUnitMaxWeaponRange(unitGroup) ==
    MaxSeq(ConcatAll([i \in 1..Len(unitGroup.subUnits) |->
              [k \in 1..Len(unitGroup.subUnits[i].weapons) |->
                  unitGroup.subUnits[i].weapons[k].range]]))

\* Math.ceil(Math.sqrt(n))
CeilSqrt(n) == CHOOSE c \in 0..n : c * c >= n /\ \A d \in 0..(c - 1) : d * d < n

\* Math.ceil(a / b) for a >= 0, b > 0
CeilDiv(a, b) == (a + b - 1) \div b

\* the model grid of createUnitCluster and updateClusterCircles
ModelGrid(n, originX, originY) ==
    LET cols == CeilSqrt(n)
    IN  [j \in 1..n |->
            [x |-> originX + ((j - 1) % cols) * DIA_IN + DIA_IN \div 2,
             y |-> originY + ((j - 1) \div cols) * DIA_IN + DIA_IN \div 2]]

\* su.models || 1
ModelsOr1(su) == IF su.models = 0 THEN 1 ELSE su.models

createUnitCluster(unitGroupData, side, id, cx, cy, originX, originY) ==
    LET modelCount == SumSeq([i \in 1..Len(unitGroupData.subUnits) |->
                                ModelsOr1(unitGroupData.subUnits[i])])
        cols == CeilSqrt(modelCount)
    IN  [id |-> id,
         name |-> unitGroupData.name,
         side |-> side,
         type |-> classifyUnitType(unitGroupData),
         bestRangeIn |-> getUnitMaxWeaponRange(unitGroupData),
         cxIn |-> cx, cyIn |-> cy,
         originXIn |-> originX, originYIn |-> originY,
         wIn |-> cols * DIA_IN,
         hIn |-> CeilDiv(modelCount, cols) * DIA_IN,
         models |-> ModelGrid(modelCount, originX, originY),
         unitGroupData |-> unitGroupData,
         activated |-> FALSE,
         shaken |-> FALSE,
         totalModels |-> modelCount,
         currentModels |-> modelCount,
         hasFoughtInMeleeThisRound |-> FALSE,
         isInCover |-> FALSE,
         subUnitStates |->
            [i \in 1..Len(unitGroupData.subUnits) |->
                LET su == unitGroupData.subUnits[i]
                IN  [originalSubUnitData |-> su,
                     currentModelsInSubUnit |-> su.models,
                     woundsOnCurrentModelInSubUnit |-> 0,
                     woundsPerModel |->
                         IF su.special.tough = 0 THEN 1 ELSE su.special.tough,
                     effectiveWeapons |-> su.weapons,
                     isHeroSubUnit |-> su.special.hero]]]

\* renderer.js: the footprint and the model grid follow the surviving models
updateClusterCircles(cluster) ==
    LET numModels == cluster.currentModels
        cols == CeilSqrt(numModels)
    IN  IF numModels <= 0 THEN cluster
        ELSE [cluster EXCEPT
                !.wIn = cols * DIA_IN,
                !.hIn = CeilDiv(numModels, cols) * DIA_IN,
                !.models = ModelGrid(numModels, cluster.originXIn,
                                     cluster.originYIn)]

(***************************************************************************)
(* Wound application (game_core_logic.js)                                  *)
(***************************************************************************)
\* the surviving sub-unit states in the order of the array, unsorted
AllocationInListOrder(targetCluster) ==
    SelectSeq([i \in 1..Len(targetCluster.subUnitStates) |-> i],
              LAMBDA i : targetCluster.subUnitStates[i].currentModelsInSubUnit > 0)

\* the sub-unit states (by index) that take wounds, in allocation order:
\* surviving non-hero sub-units by ascending woundsPerModel, then surviving
\* hero sub-units by ascending woundsPerModel
Allocation(targetCluster) ==
    LET sus == targetCluster.subUnitStates
        idx == [i \in 1..Len(sus) |-> i]
        pick(hero) ==
            LET sel == SelectSeq(idx, LAMBDA i :
                          sus[i].isHeroSubUnit = hero
                          /\ sus[i].currentModelsInSubUnit > 0)
            IN  Vals(SortKeyed([k \in 1..Len(sel) |->
                    [key |-> sus[sel[k]].woundsPerModel, val |-> sel[k]]]))
    IN  pick(FALSE) \o pick(TRUE)

\* the body of woundPackets.forEach for one packet whose first surviving
\* sub-unit of the allocation is sus[i]: kill the current model or wound it,
\* then recompute the loadout of a depleted multi-model sub-unit
ApplyPacketMissingClusterDecrement(targetCluster, i, packet) ==
    LET sus == targetCluster.subUnitStates[i]
        remainingHP == sus.woundsPerModel - sus.woundsOnCurrentModelInSubUnit
        hit == IF packet >= remainingHP
               THEN [sus EXCEPT !.currentModelsInSubUnit = @ - 1,
                                !.woundsOnCurrentModelInSubUnit = 0]
               ELSE [sus EXCEPT !.woundsOnCurrentModelInSubUnit = @ + packet]
        reloaded ==
            IF sus.originalSubUnitData.models > 1
               /\ hit.currentModelsInSubUnit < sus.originalSubUnitData.models
            THEN [hit EXCEPT !.effectiveWeapons =
                                getUpdatedWeaponLoadoutForSubUnit(hit)]
            ELSE hit
    IN  [targetCluster EXCEPT !.subUnitStates[i] = reloaded]

\* the same step when the kill branch leaves the wound counter as it was
ApplyPacketKeepingWounds(targetCluster, i, packet) ==
    LET sus == targetCluster.subUnitStates[i]
        remainingHP == sus.woundsPerModel - sus.woundsOnCurrentModelInSubUnit
        killed == packet >= remainingHP
        hit == IF killed
               THEN [sus EXCEPT !.currentModelsInSubUnit = @ - 1]
               ELSE [sus EXCEPT !.woundsOnCurrentModelInSubUnit = @ + packet]
        reloaded ==
            IF sus.originalSubUnitData.models > 1
               /\ hit.currentModelsInSubUnit < sus.originalSubUnitData.models
            THEN [hit EXCEPT !.effectiveWeapons =
                                getUpdatedWeaponLoadoutForSubUnit(hit)]
            ELSE hit
    IN  [targetCluster EXCEPT
            !.currentModels = IF killed THEN @ - 1 ELSE @,
            !.subUnitStates[i] = reloaded]

ApplyPacket(targetCluster, i, packet) ==
    LET sus == targetCluster.subUnitStates[i]
        remainingHP == sus.woundsPerModel - sus.woundsOnCurrentModelInSubUnit
        killed == packet >= remainingHP
        hit == IF killed
               THEN [sus EXCEPT !.currentModelsInSubUnit = @ - 1,
                                !.woundsOnCurrentModelInSubUnit = 0]
               ELSE [sus EXCEPT !.woundsOnCurrentModelInSubUnit = @ + packet]
        reloaded ==
            IF sus.originalSubUnitData.models > 1
               /\ hit.currentModelsInSubUnit < sus.originalSubUnitData.models
            THEN [hit EXCEPT !.effectiveWeapons =
                                getUpdatedWeaponLoadoutForSubUnit(hit)]
            ELSE hit
    IN  [targetCluster EXCEPT
            !.currentModels = IF killed THEN @ - 1 ELSE @,
            !.subUnitStates[i] = reloaded]

\* woundPackets.forEach(...): r is [cluster, modelsKilledCount, log]; the log
\* keeps, per packet, the sub-unit it went to (0: none left) and whether it killed
RECURSIVE ApplyPackets(_, _, _)
ApplyPackets(r, allocation, woundPackets) ==
    IF woundPackets = <<>> THEN r
    ELSE
      LET packet == Head(woundPackets)
          alive == SelectSeq(allocation, LAMBDA i :
                      ~(r.cluster.subUnitStates[i].currentModelsInSubUnit <= 0))
      IN  IF alive = <<>>
          THEN ApplyPackets([r EXCEPT !.log = Append(@,
                                [packet |-> packet, sus |-> 0, killed |-> FALSE])],
                            allocation, Tail(woundPackets))
          ELSE
            LET i == Head(alive)
                sus == r.cluster.subUnitStates[i]
                killed == packet >= sus.woundsPerModel
                                    - sus.woundsOnCurrentModelInSubUnit
            IN  ApplyPackets(
                  [cluster |-> ApplyPacket(r.cluster, i, packet),
                   modelsKilledCount |->
                       r.modelsKilledCount + (IF killed THEN 1 ELSE 0),
                   log |-> Append(r.log, [packet |-> packet, sus |-> i,
                                          killed |-> killed])],
                  allocation, Tail(woundPackets))

\* `packets` is [isArray |-> TRUE, list |-> <<...>>] for an array of wound
\* packets and [isArray |-> FALSE, count |-> n] for a number of 1-wound hits
PacketArray(list) == [isArray |-> TRUE, list |-> list]
PacketCount(n) == [isArray |-> FALSE, count |-> n]

\* result: [cluster, modelsKilledCount, log]
applyWoundsToCluster(targetCluster, packets) ==
    LET woundPackets == IF packets.isArray THEN packets.list
                        ELSE [i \in 1..packets.count |-> 1]
        r == ApplyPackets([cluster |-> targetCluster, modelsKilledCount |-> 0,
                           log |-> <<>>],
                          Allocation(targetCluster), woundPackets)
        clamped == [r.cluster EXCEPT !.currentModels = Max(0, @)]
    IN  [r EXCEPT !.cluster = IF clamped.currentModels > 0
                              THEN updateClusterCircles(clamped)
                              ELSE clamped]

SumSubUnitModels(cluster) ==
    SumSeq([i \in 1..Len(cluster.subUnitStates) |->
              cluster.subUnitStates[i].currentModelsInSubUnit])

(***************************************************************************)
(* Attack sequence (attack_sequence_logic.js). The die rolls of one call   *)
(* are the sequence `dice`, read in the order rollDie() is called: the hit *)
(* rolls, one save roll per hit, the Medical Training rolls, the           *)
(* Self-Repair rolls.                                                      *)
(***************************************************************************)
\* actionContext: an object with isCharge / isHold, or the string "Hold"
ActionContext(isCharge, isHold, isHoldString) ==
    [isCharge |-> isCharge, isHold |-> isHold, isHoldString |-> isHoldString]
NoContext == ActionContext(FALSE, FALSE, FALSE)          \* {} (the default)
HoldString == ActionContext(FALSE, FALSE, TRUE)          \* "Hold"
ChargeContext == ActionContext(TRUE, FALSE, FALSE)       \* {isCharge: true}

IsMelee(weapon) == weapon.range = 0

QTarget(attackerSubUnit, weapon, actionContext, isAttackerFatigued) ==
    IF IsMelee(weapon) /\ isAttackerFatigued THEN attackerSubUnit.quality
    ELSE IF weapon.special.reliable
    THEN Max(2, (IF attackerSubUnit.special.goodShot /\ ~IsMelee(weapon)
                    /\ actionContext.isHold
                 THEN Min(attackerSubUnit.quality, 4)
                 ELSE attackerSubUnit.quality) - 1)
    ELSE IF attackerSubUnit.special.goodShot /\ ~IsMelee(weapon)
            /\ actionContext.isHold
    THEN Min(attackerSubUnit.quality, 4)
    ELSE attackerSubUnit.quality

GroupHasBattleDrills(group) ==
    \E i \in 1..Len(group.subUnits) : group.subUnits[i].special.battleDrills

FuriousThreshold(attackerSubUnit, weapon, actionContext, group) ==
    IF actionContext.isCharge /\ IsMelee(weapon)
    THEN IF GroupHasBattleDrills(group) /\ attackerSubUnit.special.furiousOriginal
         THEN 5
         ELSE IF attackerSubUnit.special.furious \/ GroupHasBattleDrills(group)
         THEN 6 ELSE 0
    ELSE 0

RelentlessThreshold(attackerSubUnit, actionContext, threshold) ==
    IF (actionContext.isHold \/ actionContext.isHoldString)
       /\ attackerSubUnit.special.relentless
    THEN 6 ELSE threshold

ExtraHitThreshold(attackerSubUnit, weapon, actionContext, group) ==
    IF weapon.special.flux
    THEN Max(RelentlessThreshold(attackerSubUnit, actionContext,
                FuriousThreshold(attackerSubUnit, weapon, actionContext, group)), 6)
    ELSE RelentlessThreshold(attackerSubUnit, actionContext,
                FuriousThreshold(attackerSubUnit, weapon, actionContext, group))

\* finalAP of one hit roll
FinalAP(attackerSubUnit, weapon, roll, qTarget) ==
    (IF weapon.special.rending /\ (roll = 6 \/ (roll > 1 /\ roll >= qTarget))
     THEN Max(weapon.ap, 4) ELSE weapon.ap)
    + (IF attackerSubUnit.special.precisionShots /\ ~IsMelee(weapon) THEN 1 ELSE 0)

HitOccurred(weapon, roll, qTarget, isAttackerFatigued) ==
    IF roll = 1 /\ ~weapon.special.reliable THEN FALSE
    ELSE IF IsMelee(weapon) /\ isAttackerFatigued THEN roll = 6
    ELSE roll = 6 \/ roll >= qTarget

Hit(ap, roll, fromExtra) ==
    [ap |-> ap, roll |-> roll, fromExtra |-> fromExtra, fromBlast |-> FALSE]

\* the rawHits pushed for one hit roll
HitsOfRoll(attackerSubUnit, weapon, roll, qTarget, extraHitThreshold, isAttackerFatigued) ==
    IF ~HitOccurred(weapon, roll, qTarget, isAttackerFatigued) THEN <<>>
    ELSE IF extraHitThreshold > 0 /\ roll >= extraHitThreshold
    THEN <<Hit(FinalAP(attackerSubUnit, weapon, roll, qTarget), roll, FALSE),
           Hit(FinalAP(attackerSubUnit, weapon, roll, qTarget), roll, TRUE)>>
    ELSE <<Hit(FinalAP(attackerSubUnit, weapon, roll, qTarget), roll, FALSE)>>

\* 2. Roll to Hit: rawHits
RollToHit(attackerSubUnit, weapon, qTarget, extraHitThreshold, isAttackerFatigued, rolls) ==
    ConcatAll([i \in 1..Len(rolls) |->
        HitsOfRoll(attackerSubUnit, weapon, rolls[i], qTarget, extraHitThreshold,
                   isAttackerFatigued)])

\* Blast(N) copies of every hit, however few models the defender has
ApplyBlastUncapped(weapon, defenderClusterModelsForBlast, rawHits) ==
    IF weapon.special.blast # 0 /\ defenderClusterModelsForBlast > 0
    THEN ConcatAll([i \in 1..Len(rawHits) |->
            [k \in 1..weapon.special.blast |-> [rawHits[i] EXCEPT !.fromBlast = TRUE]]])
    ELSE rawHits

\* the copies of a hit flagged, the hit itself left as it was rolled
ApplyBlastFlaggingDuplicates(weapon, defenderClusterModelsForBlast, rawHits) ==
    IF weapon.special.blast # 0 /\ defenderClusterModelsForBlast > 0
    THEN ConcatAll([i \in 1..Len(rawHits) |->
            [k \in 1..Min(weapon.special.blast, defenderClusterModelsForBlast) |->
                [rawHits[i] EXCEPT !.fromBlast = (k > 1)]]])
    ELSE rawHits

\* 3. Apply Blast: hitsAfterBlast
ApplyBlast(weapon, defenderClusterModelsForBlast, rawHits) ==
    IF weapon.special.blast # 0 /\ defenderClusterModelsForBlast > 0
    THEN ConcatAll([i \in 1..Len(rawHits) |->
            [k \in 1..Min(weapon.special.blast, defenderClusterModelsForBlast) |->
                [rawHits[i] EXCEPT !.fromBlast = TRUE]]])
    ELSE rawHits

DiceCount(weapon) == weapon.amount * weapon.attacks

AttackHits(attackerSubUnit, weapon, defenderClusterModelsForBlast, actionContext, isAttackerFatigued, group, dice) ==
    ApplyBlast(weapon, defenderClusterModelsForBlast,
        RollToHit(attackerSubUnit, weapon,
            QTarget(attackerSubUnit, weapon, actionContext, isAttackerFatigued),
            ExtraHitThreshold(attackerSubUnit, weapon, actionContext, group),
            isAttackerFatigued, SubSeq(dice, 1, DiceCount(weapon))))

\* 4. Resolve Saves
SaveTargetUnclamped(defenderSubUnit, isTargetInCover, hit) ==
    defenderSubUnit.defense
    - (IF defenderSubUnit.special.shieldWall THEN 1 ELSE 0)
    - (IF hit.fromBlast THEN 0 ELSE IF isTargetInCover THEN 1 ELSE 0)
    + hit.ap

SaveTarget(defenderSubUnit, isTargetInCover, hit) ==
    Max(2, defenderSubUnit.defense
           - (IF defenderSubUnit.special.shieldWall THEN 1 ELSE 0)
           - (IF hit.fromBlast THEN 0 ELSE IF isTargetInCover THEN 1 ELSE 0)
           + hit.ap)

SaveFailed(saveRoll, saveTarget) ==
    saveRoll = 1 \/ ~(saveRoll = 6 \/ saveRoll >= saveTarget)

\* one entry per hit: its save target, its save roll dice[from + k], the outcome
ResolveSaves(defenderSubUnit, isTargetInCover, hits, dice, from) ==
    [k \in 1..Len(hits) |->
        [hit |-> hits[k],
         saveTarget |-> SaveTarget(defenderSubUnit, isTargetInCover, hits[k]),
         saveRoll |-> dice[from + k],
         failed |-> SaveFailed(dice[from + k],
                       SaveTarget(defenderSubUnit, isTargetInCover, hits[k]))]]

SaveFailures(saves) == SelectSeq(saves, LAMBDA sv : sv.failed)

\* woundPackets before Medical Training and Self-Repair
PacketsOfFailures(weapon, saveFailures) ==
    [k \in 1..Len(saveFailures) |->
        IF weapon.special.deadly # 0 THEN weapon.special.deadly ELSE 1]

\* the woundPackets.forEach of Medical Training (minRoll 5) and Self-Repair
\* (minRoll 6): each wound of each packet is prevented on a roll >= minRoll
Prevented(w, rolls, minRoll) ==
    Cardinality({i \in 1..w : rolls[i] >= minRoll})

\* the packets lowered, those left with no point kept in the list
RECURSIVE PreventWoundsKeepingAll(_, _, _)
PreventWoundsKeepingAll(woundPackets, rolls, minRoll) ==
    IF woundPackets = <<>> THEN <<>>
    ELSE <<Head(woundPackets) - Prevented(Head(woundPackets), rolls, minRoll)>>
         \o PreventWoundsKeepingAll(Tail(woundPackets),
                SubSeq(rolls, Head(woundPackets) + 1, Len(rolls)), minRoll)

RECURSIVE PreventWounds(_, _, _)
PreventWounds(woundPackets, rolls, minRoll) ==
    IF woundPackets = <<>> THEN <<>>
    ELSE (IF Head(woundPackets) - Prevented(Head(woundPackets), rolls, minRoll) > 0
          THEN <<Head(woundPackets)
                    - Prevented(Head(woundPackets), rolls, minRoll)>>
          ELSE <<>>)
         \o PreventWounds(Tail(woundPackets),
                SubSeq(rolls, Head(woundPackets) + 1, Len(rolls)), minRoll)

\* rolls made by one of the two rules on these packets
PreventRolls(applies, woundPackets) ==
    IF applies /\ woundPackets # <<>> THEN SumSeq(woundPackets) ELSE 0

ApplyPrevention(applies, woundPackets, dice, from, minRoll) ==
    IF applies /\ woundPackets # <<>>
    THEN PreventWounds(woundPackets,
            SubSeq(dice, from + 1, from + SumSeq(woundPackets)), minRoll)
    ELSE woundPackets

\* the arguments of one gameRollAttackSequence call
AttackCall(attackerSubUnit, weapon, defenderSubUnit, defenderClusterModelsForBlast, actionContext, isTargetInCover, isAttackerFatigued, group) ==
    [attackerSubUnit |-> attackerSubUnit, weapon |-> weapon,
     defenderSubUnit |-> defenderSubUnit,
     defenderClusterModelsForBlast |-> defenderClusterModelsForBlast,
     actionContext |-> actionContext, isTargetInCover |-> isTargetInCover,
     isAttackerFatigued |-> isAttackerFatigued, group |-> group]

CallHits(c, dice) ==
    AttackHits(c.attackerSubUnit, c.weapon, c.defenderClusterModelsForBlast,
               c.actionContext, c.isAttackerFatigued, c.group, dice)

CallSaves(c, dice) ==
    ResolveSaves(c.defenderSubUnit, c.isTargetInCover, CallHits(c, dice), dice,
                 DiceCount(c.weapon))

CallPackets(c, dice) == PacketsOfFailures(c.weapon, SaveFailures(CallSaves(c, dice)))

\* the number of rolls made before the Medical Training rolls
MedicalTrainingFrom(c, dice) == DiceCount(c.weapon) + Len(CallHits(c, dice))

AfterMedicalTraining(c, dice) ==
    ApplyPrevention(c.defenderSubUnit.special.medicalTraining,
                    CallPackets(c, dice), dice, MedicalTrainingFrom(c, dice), 5)

SelfRepairFrom(c, dice) ==
    MedicalTrainingFrom(c, dice)
    + PreventRolls(c.defenderSubUnit.special.medicalTraining, CallPackets(c, dice))

AfterSelfRepair(c, dice) ==
    ApplyPrevention(c.defenderSubUnit.special.selfRepair,
                    AfterMedicalTraining(c, dice), dice, SelfRepairFrom(c, dice), 6)

RollAttack(c, dice) ==
    [hits |-> CallHits(c, dice),
     saves |-> CallSaves(c, dice),
     woundPackets |-> AfterSelfRepair(c, dice),
     totalDamageInflicted |-> SumSeq(AfterSelfRepair(c, dice))]

\* result: [hits, saves, woundPackets, totalDamageInflicted]
gameRollAttackSequence(attackerSubUnit, weapon, defenderSubUnit, defenderClusterModelsForBlast, actionContext, isTargetInCover, isAttackerFatigued, group, dice) ==
    RollAttack(AttackCall(attackerSubUnit, weapon, defenderSubUnit,
                          defenderClusterModelsForBlast, actionContext,
                          isTargetInCover, isAttackerFatigued, group), dice)

\* the die-roll sequences one call can consume, each as long as the call reads:
\* every prefix is extended by the rolls the next step makes after it
WithRolls(d, n) == {d \o e : e \in [1..n -> Die]}

SaveRolls(c, d) == Len(CallHits(c, d))
MedicalTrainingRolls(c, d) ==
    PreventRolls(c.defenderSubUnit.special.medicalTraining, CallPackets(c, d))
SelfRepairRolls(c, d) ==
    PreventRolls(c.defenderSubUnit.special.selfRepair, AfterMedicalTraining(c, d))

AttackDice(c) ==
    UNION {WithRolls(d3, SelfRepairRolls(c, d3)) : d3 \in
      UNION {WithRolls(d2, MedicalTrainingRolls(c, d2)) : d2 \in
        UNION {WithRolls(d1, SaveRolls(c, d1)) : d1 \in
          [1..DiceCount(c.weapon) -> Die]}}}

(***************************************************************************)
(* Specification SpecWounds: a cluster built by createUnitCluster takes    *)
(* any sequence of applyWoundsToCluster calls.                             *)
(***************************************************************************)
Rifle(amount) == Weapon("Rifle", amount, 2400, 1, 0, NoWeaponSpecial)
Sword(amount) == Weapon("Sword", amount, 0, 2, 1, NoWeaponSpecial)

\* sub-units of 1..models models with Tough(1..MaxTough), hero or not
WoundSubUnits(name, models) ==
    {SubUnit(name, m, 4, 4, <<Rifle(m), Sword(1)>>,
             Special(IF hero THEN {"hero"} ELSE {}, t, 0)) :
        m \in 1..models, t \in 1..MaxTough, hero \in BOOLEAN}

\* a single sub-unit, or a sub-unit joined by a single-model one
WoundGroups ==
    {UnitGroup("A", <<a>>) : a \in WoundSubUnits("A", MaxModels)}
    \cup {UnitGroup("A & B", <<a, b>>) :
            a \in WoundSubUnits("A", MaxModels), b \in WoundSubUnits("B", 1)}

SeqsUpTo(S, n) == UNION {[1..k -> S] : k \in 0..n}

NoLast == [op |-> "none"]
NoAct == [unit |-> 0]
NoHist == [firstDone |-> {}]

InitWounds ==
    /\ \E g \in WoundGroups :
          clusters = <<createUnitCluster(g, "attackers", 1, 0, 0, 0, 0)>>
    /\ clusterCache = [attackers |-> <<1>>, defenders |-> <<>>]
    /\ objectives = <<>>
    /\ currentTurn = "attackers"
    /\ currentRound = 1
    /\ playerWhoFinishedLastRoundFirst = Null
    /\ playerWhoStartedCurrentRound = "attackers"
    /\ pc = "wounds"
    /\ act = NoAct
    /\ last = NoLast
    /\ hist = NoHist

gameVars == <<clusterCache, objectives, currentTurn, currentRound,
              playerWhoFinishedLastRoundFirst, playerWhoStartedCurrentRound,
              pc, act, hist>>

WoundCall(packets) ==
    LET r == applyWoundsToCluster(clusters[1], packets)
    IN  /\ clusters' = [clusters EXCEPT ![1] = r.cluster]
        /\ last' = [op |-> "applyWoundsToCluster",
                    modelsKilledCount |-> r.modelsKilledCount, log |-> r.log]
        /\ UNCHANGED gameVars

\* applyWoundsToCluster(cluster, [p1, p2, ...])
ApplyWoundPackets ==
    /\ pc = "wounds"
    /\ \E list \in SeqsUpTo(1..MaxPacket, MaxPackets) :
          WoundCall(PacketArray(list))

\* applyWoundsToCluster(cluster, n)
ApplyWoundCount ==
    /\ pc = "wounds"
    /\ \E n \in 0..MaxPackets : WoundCall(PacketCount(n))

NextWounds == ApplyWoundPackets \/ ApplyWoundCount

SpecWounds == InitWounds /\ [][NextWounds]_vars

WithinItsModel(sus) ==
    /\ 0 <= sus.woundsOnCurrentModelInSubUnit
    /\ sus.woundsOnCurrentModelInSubUnit < sus.woundsPerModel
    /\ 0 <= sus.currentModelsInSubUnit
    /\ sus.currentModelsInSubUnit <= sus.originalSubUnitData.models

\* one packet took the sub-unit state from `before` to `after`
KeptByPacket(before, after) ==
    /\ WithinItsModel(after)
    /\ after.currentModelsInSubUnit <= before.currentModelsInSubUnit
    /\ after.currentModelsInSubUnit < before.currentModelsInSubUnit =>
          after.woundsOnCurrentModelInSubUnit = 0

\* the packets are applied one by one, in the order the forEach of
\* applyWoundsToCluster runs, every one of them keeps every sub-unit state,
\* and the last one leaves the sub-unit states `final`
RECURSIVE KeptByPackets(_, _, _, _)
KeptByPackets(cluster, allocation, woundPackets, final) ==
    IF woundPackets = <<>> THEN cluster.subUnitStates = final
    ELSE \E after \in {ApplyPackets([cluster |-> cluster,
                                      modelsKilledCount |-> 0, log |-> <<>>],
                                     allocation,
                                     <<Head(woundPackets)>>).cluster} :
            /\ \A i \in DOMAIN cluster.subUnitStates :
                  KeptByPacket(cluster.subUnitStates[i], after.subUnitStates[i])
            /\ KeptByPackets(after, allocation, Tail(woundPackets), final)

\* C39: in every state every sub-unit state of every cluster has
\* 0 <= woundsOnCurrentModelInSubUnit < woundsPerModel and
\* 0 <= currentModelsInSubUnit <= its original model count; no packet of an
\* applyWoundsToCluster call raises currentModelsInSubUnit, and a packet that
\* kills a model of a sub-unit leaves that sub-unit's wound counter at 0.
C39_WoundsWithinCurrentModel ==
    /\ [](\A id \in DOMAIN clusters :
            \A i \in DOMAIN clusters[id].subUnitStates :
                WithinItsModel(clusters[id].subUnitStates[i]))
    /\ [][last'.op = "applyWoundsToCluster" =>
            KeptByPackets(clusters[1], Allocation(clusters[1]),
                          [j \in 1..Len(last'.log) |-> last'.log[j].packet],
                          clusters'[1].subUnitStates)]_vars

\* a Tough(2) model that carried a wound from one packet of the call was
\* killed by a later one while its sub-unit survives with no wound counted
C39_Witness ==
    /\ last.op = "applyWoundsToCluster"
    /\ \E i \in DOMAIN clusters[1].subUnitStates :
          /\ clusters[1].subUnitStates[i].woundsPerModel = 2
          /\ clusters[1].subUnitStates[i].woundsOnCurrentModelInSubUnit = 0
          /\ clusters[1].subUnitStates[i].currentModelsInSubUnit > 0
          /\ \E k \in 1..Len(last.log) : \E n \in 1..Len(last.log) :
                /\ k < n
                /\ last.log[k].sus = i /\ ~last.log[k].killed
                /\ last.log[n].sus = i /\ last.log[n].killed
                /\ \A j \in (k + 1)..(n - 1) : last.log[j].sus # i


\* models of sub-unit i that survive the packets before the k-th of the log
SurvivorsBefore(cluster, log, k, i) ==
    cluster.subUnitStates[i].currentModelsInSubUnit
        - Cardinality({j \in 1..(k - 1) : log[j].sus = i /\ log[j].killed})

\* C19: in applyWoundsToCluster no packet goes to a hero sub-unit while a
\* non-hero sub-unit of the cluster has surviving models, and among the
\* surviving sub-units of the same hero status a packet goes to one with
\* the smallest wounds-per-model.
C19_HeroesLastThenFewestWounds ==
    [][last'.op = "applyWoundsToCluster" =>
        \A k \in 1..Len(last'.log) :
            last'.log[k].sus # 0 =>
                /\ SurvivorsBefore(clusters[1], last'.log, k, last'.log[k].sus) > 0
                /\ \A i \in 1..Len(clusters[1].subUnitStates) :
                      SurvivorsBefore(clusters[1], last'.log, k, i) > 0 =>
                        /\ clusters[1].subUnitStates[last'.log[k].sus].isHeroSubUnit
                              => clusters[1].subUnitStates[i].isHeroSubUnit
                        /\ clusters[1].subUnitStates[last'.log[k].sus].isHeroSubUnit
                              = clusters[1].subUnitStates[i].isHeroSubUnit
                              => clusters[1].subUnitStates[last'.log[k].sus].woundsPerModel
                                   <= clusters[1].subUnitStates[i].woundsPerModel]_vars

\* one call whose first packet killed the last model of a non-hero sub-unit
\* listed after the hero, and whose next packet went to the hero
C19_Witness ==
    /\ last.op = "applyWoundsToCluster"
    /\ Len(last.log) >= 2
    /\ last.log[1].sus = 2 /\ last.log[1].killed
    /\ last.log[2].sus = 1
    /\ clusters[1].subUnitStates[1].isHeroSubUnit
    /\ ~clusters[1].subUnitStates[2].isHeroSubUnit

(***************************************************************************)
(* Specification SpecAttack: one gameRollAttackSequence call on arguments  *)
(* drawn from bounded sets, with every die-roll sequence it can read.      *)
(***************************************************************************)
Defenses == 2..6

AttackWeapons ==
    {Weapon("W", 1, range, 1, ap,
            [NoWeaponSpecial EXCEPT !.rending = rending, !.blast = blast]) :
        range \in {0, 2400}, ap \in (0 - MaxAP)..MaxAP,
        rending \in BOOLEAN, blast \in {0, 2}}

AttackCalls ==
    {AttackCall(SubUnit("Atk", 1, 4, 4, <<w>>,
                        Special(IF precise THEN {"precisionShots"} ELSE {}, 0, 0)),
                w,
                SubUnit("Def", 2, 4, defense, <<>>,
                        Special(IF wall THEN {"shieldWall"} ELSE {}, 0, 0)),
                2, NoContext, cover, FALSE,
                UnitGroup("Atk", <<SubUnit("Atk", 1, 4, 4, <<w>>,
                        Special(IF precise THEN {"precisionShots"} ELSE {}, 0, 0))>>)) :
        w \in AttackWeapons, precise \in BOOLEAN, defense \in Defenses,
        wall \in BOOLEAN, cover \in BOOLEAN}

InitAttack ==
    /\ \E c \in AttackCalls : act = c
    /\ clusters = <<>>
    /\ clusterCache = [attackers |-> <<>>, defenders |-> <<>>]
    /\ objectives = <<>>
    /\ currentTurn = "attackers"
    /\ currentRound = 1
    /\ playerWhoFinishedLastRoundFirst = Null
    /\ playerWhoStartedCurrentRound = "attackers"
    /\ pc = "attack"
    /\ last = NoLast
    /\ hist = NoHist

\* gameRollAttackSequence(...) with the rolls `dice`
RollAttackSequence ==
    /\ pc = "attack"
    /\ \E dice \in AttackDice(act) :
          last' = [op |-> "gameRollAttackSequence", dice |-> dice]
                  @@ RollAttack(act, dice)
    /\ pc' = "rolled"
    /\ UNCHANGED <<clusters, clusterCache, objectives, currentTurn, currentRound,
                   playerWhoFinishedLastRoundFirst, playerWhoStartedCurrentRound,
                   act, hist>>

NextAttack == RollAttackSequence

SpecAttack == InitAttack /\ [][NextAttack]_vars

\* C6: in gameRollAttackSequence the save threshold of every hit is at least 2,
\* whatever the defense, Shield Wall, cover, AP (negative too), Rending and
\* Precision Shots; a save roll of 6 succeeds and a save roll of 1 fails.
C6_SaveThresholdAtLeast2 ==
    last.op = "gameRollAttackSequence" =>
        \A k \in 1..Len(last.saves) :
            /\ last.saves[k].saveTarget >= 2
            /\ last.saves[k].saveRoll = 6 => ~last.saves[k].failed
            /\ last.saves[k].saveRoll = 1 => last.saves[k].failed

\* two saves against a Blast hit whose bonuses would put the threshold below
\* 2: one failed on a roll of 1, the other made on a roll of 2
C6_Witness ==
    /\ last.op = "gameRollAttackSequence"
    /\ Len(last.saves) = 2
    /\ \E k \in 1..2 :
          /\ SaveTargetUnclamped(act.defenderSubUnit, act.isTargetInCover,
                                 last.saves[k].hit) < 2
          /\ last.saves[k].saveRoll = 1
          /\ last.saves[k].failed
          /\ last.saves[3 - k].saveTarget = 2
          /\ last.saves[3 - k].saveRoll = 2
          /\ ~last.saves[3 - k].failed

(***************************************************************************)
(* Objective control (geometry_helpers.js, game_core_logic.js)             *)
(***************************************************************************)
\* Math.hypot(ax - bx, ay - by) squared
Dist2(ax, ay, bx, by) == (ax - bx) * (ax - bx) + (ay - by) * (ay - by)

isUnitNearPoint(unitCluster, pointInches, distanceInches) ==
    \E j \in 1..Len(unitCluster.models) :
        Dist2(unitCluster.models[j].x, unitCluster.models[j].y,
              pointInches.x, pointInches.y) <= distanceInches * distanceInches

\* the rosters hold cluster ids; the clusters themselves are in `clusters`
getAISideCache == clusterCache[currentTurn]
getEnemySideCache ==
    IF currentTurn = "attackers" THEN clusterCache.defenders
    ELSE clusterCache.attackers

\* (cache || []).filter((c) => !c.shaken && isUnitNearPoint(c, objective, 3)).length
UnitsOnObjective(cache, objective) ==
    Len(SelectSeq(cache, LAMBDA id :
            ~clusters[id].shaken /\ isUnitNearPoint(clusters[id], objective, 300)))

isObjectiveUnderAIControlCountingShaken(objective) ==
    IF objective.controller = currentTurn THEN TRUE
    ELSE IF objective.controller # Null THEN FALSE
    ELSE Len(SelectSeq(getAISideCache, LAMBDA id :
                isUnitNearPoint(clusters[id], objective, 300)))
         > Len(SelectSeq(getEnemySideCache, LAMBDA id :
                isUnitNearPoint(clusters[id], objective, 300)))

isObjectiveUnderAIControl(objective) ==
    IF objective.controller = currentTurn THEN TRUE
    ELSE IF objective.controller # Null THEN FALSE
    ELSE UnitsOnObjective(getAISideCache, objective)
         > UnitsOnObjective(getEnemySideCache, objective)

(***************************************************************************)
(* Specification SpecObjective: one objective, clusters of both sides      *)
(* placed at and just beyond 3 inches from it, one control check.          *)
(***************************************************************************)
Objective(x, y, controller) == [x |-> x, y |-> y, controller |-> controller]

TheObjective(controller) == Objective(3600, 2400, controller)

Trooper == UnitGroup("Trooper", <<SubUnit("Trooper", 1, 4, 4, <<Rifle(1)>>, Special({}, 0, 0))>>)
Pair == UnitGroup("Pair", <<SubUnit("Pair", 2, 4, 4, <<Rifle(2)>>, Special({}, 0, 0))>>)

\* a cluster whose model nearest to the objective is `dist` away from it on
\* the objective's row: attackers come in pairs (their second model is the
\* near one), defenders are single models
PlacedCluster(side, id, dist, shaken) ==
    [(IF side = "attackers"
      THEN createUnitCluster(Pair, side, id, 3600 - dist - 63, 2400, 3600 - dist - 3 * 63, 2400 - 63)
      ELSE createUnitCluster(Trooper, side, id, 3600 + dist, 2400, 3600 + dist - 63, 2400 - 63))
     EXCEPT !.shaken = shaken]

Placements == {300, 301} \X BOOLEAN

\* rosters of 0..MaxNearUnits placed clusters per side; ids run over the
\* attackers first, then the defenders
PlacedRosters == UNION {[1..n -> Placements] : n \in 0..MaxNearUnits}

InitObjective ==
    /\ \E a \in PlacedRosters, d \in PlacedRosters :
          /\ clusters =
                [i \in 1..Len(a) |-> PlacedCluster("attackers", i, a[i][1], a[i][2])]
                \o [i \in 1..Len(d) |->
                      PlacedCluster("defenders", Len(a) + i, d[i][1], d[i][2])]
          /\ clusterCache = [attackers |-> [i \in 1..Len(a) |-> i],
                             defenders |-> [i \in 1..Len(d) |-> Len(a) + i]]
    /\ \E controller \in Sides \cup {Null} :
          objectives = <<TheObjective(controller)>>
    /\ currentTurn \in Sides
    /\ currentRound = 1
    /\ playerWhoFinishedLastRoundFirst = Null
    /\ playerWhoStartedCurrentRound = "attackers"
    /\ pc = "check"
    /\ act = NoAct
    /\ last = NoLast
    /\ hist = NoHist

\* isObjectiveUnderAIControl(objectives[0])
CheckObjectiveControl ==
    /\ pc = "check"
    /\ last' = [op |-> "isObjectiveUnderAIControl",
                result |-> isObjectiveUnderAIControl(objectives[1])]
    /\ pc' = "checked"
    /\ UNCHANGED <<clusters, clusterCache, objectives, currentTurn, currentRound,
                   playerWhoFinishedLastRoundFirst, playerWhoStartedCurrentRound,
                   act, hist>>

\* the controller when a held marker stays with its holder while both sides
\* stand next to it
NewControllerKeptOnContest(controller, attackerUnitsNear, defenderUnitsNear) ==
    IF attackerUnitsNear /\ ~defenderUnitsNear THEN "attackers"
    ELSE IF defenderUnitsNear /\ ~attackerUnitsNear THEN "defenders"
    ELSE controller

\* the controller when a marker nobody stands next to goes back to none
NewControllerLostWhenLeft(controller, attackerUnitsNear, defenderUnitsNear) ==
    IF attackerUnitsNear /\ ~defenderUnitsNear THEN "attackers"
    ELSE IF defenderUnitsNear /\ ~attackerUnitsNear THEN "defenders"
    ELSE Null

\* updateObjectiveControlAtTurnEnd for one marker, given which sides have a
\* non-shaken unit within 3 inches of it
NewController(controller, attackerUnitsNear, defenderUnitsNear) ==
    IF attackerUnitsNear /\ ~defenderUnitsNear THEN "attackers"
    ELSE IF defenderUnitsNear /\ ~attackerUnitsNear THEN "defenders"
    ELSE IF attackerUnitsNear /\ defenderUnitsNear THEN Null
    ELSE controller

updateObjectiveControlAtTurnEnd(near) ==
    [i \in 1..Len(objectives) |->
        [objectives[i] EXCEPT !.controller =
            NewController(@, "attackers" \in near[i], "defenders" \in near[i])]]

\* the sides with a non-shaken listed unit within 3 inches of the marker
SidesNear(objective) ==
    {s \in Sides : UnitsOnObjective(clusterCache[s], objective) > 0}

\* updateObjectiveControlAtTurnEnd()
UpdateObjectiveControl ==
    /\ pc = "check"
    /\ objectives' = updateObjectiveControlAtTurnEnd(
                        [i \in 1..Len(objectives) |-> SidesNear(objectives[i])])
    /\ last' = [op |-> "updateObjectiveControlAtTurnEnd",
                before |-> objectives]
    /\ pc' = "updated"
    /\ UNCHANGED <<clusters, clusterCache, currentTurn, currentRound,
                   playerWhoFinishedLastRoundFirst, playerWhoStartedCurrentRound,
                   act, hist>>

NextObjective ==
    \/ CheckObjectiveControl
    \/ UpdateObjectiveControl

SpecObjective == InitObjective /\ [][NextObjective]_vars

\* the non-shaken clusters of a side that have a model within 3 inches of the
\* first objective
NonShakenWithin3(side) ==
    {id \in SeqToSet(clusterCache[side]) :
        /\ ~clusters[id].shaken
        /\ \E m \in SeqToSet(clusters[id].models) :
              Dist2(m.x, m.y, objectives[1].x, objectives[1].y) <= 300 * 300}

ActingMajority ==
    Cardinality(NonShakenWithin3(currentTurn))
        > Cardinality(NonShakenWithin3(Other(currentTurn)))

\* C7: for an objective with no prior controller, isObjectiveUnderAIControl is
\* true exactly when strictly more non-shaken units of the side whose turn it is
\* than non-shaken units of the other side are within 3 inches; with 2 attackers
\* and 1 defender there it is true on the attackers' turn and false on the
\* defenders'; shaken units count for neither side.
C7_MajorityWithoutController ==
    (last.op = "isObjectiveUnderAIControl" /\ objectives[1].controller = Null) =>
        /\ last.result <=> ActingMajority
        /\ (Cardinality(NonShakenWithin3("attackers")) = 2
            /\ Cardinality(NonShakenWithin3("defenders")) = 1)
           => (last.result <=> currentTurn = "attackers")

\* two attackers and one defender within 3 inches, none shaken, no controller,
\* checked on the defenders' turn, a shaken defender standing by
C7_Witness ==
    /\ last.op = "isObjectiveUnderAIControl"
    /\ objectives[1].controller = Null
    /\ Cardinality(NonShakenWithin3("attackers")) = 2
    /\ Cardinality(NonShakenWithin3("defenders")) = 1
    /\ \E id \in SeqToSet(clusterCache.defenders) :
          clusters[id].shaken /\ isUnitNearPoint(clusters[id], objectives[1], 300)
    /\ currentTurn = "defenders"
    /\ ~last.result

\* C8: whatever the prior controller, isObjectiveUnderAIControl is true when
\* the acting side already holds the objective and also when strictly more
\* non-shaken acting units than non-shaken enemy units are within 3 inches, and
\* false otherwise.
C8_HeldOrMajority ==
    last.op = "isObjectiveUnderAIControl" =>
        (last.result <=> (objectives[1].controller = currentTurn \/ ActingMajority))

\* C13: updateObjectiveControlAtTurnEnd gives the objective to the attackers
\* when non-shaken attackers and no non-shaken defenders are within 3 inches,
\* to the defenders in the mirrored case, to nobody when non-shaken units of
\* both sides are within 3 inches (even if a side held it), and leaves the
\* controller as it was when no non-shaken unit is within 3 inches
C13_ControllerFromPresence ==
    last.op = "updateObjectiveControlAtTurnEnd" =>
        objectives[1].controller =
            CASE NonShakenWithin3("attackers") # {}
                    /\ NonShakenWithin3("defenders") = {} -> "attackers"
              [] NonShakenWithin3("defenders") # {}
                    /\ NonShakenWithin3("attackers") = {} -> "defenders"
              [] NonShakenWithin3("attackers") # {}
                    /\ NonShakenWithin3("defenders") # {} -> Null
              [] OTHER -> last.before[1].controller

\* the attackers held the objective, non-shaken units of both sides and a
\* shaken defender are within 3 inches, and the update has reset it to none
C13_Witness ==
    /\ last.op = "updateObjectiveControlAtTurnEnd"
    /\ last.before[1].controller = "attackers"
    /\ NonShakenWithin3("attackers") # {}
    /\ NonShakenWithin3("defenders") # {}
    /\ \E id \in SeqToSet(clusterCache.defenders) :
          clusters[id].shaken /\ isUnitNearPoint(clusters[id], objectives[1], 300)
    /\ objectives[1].controller = Null

\* C14 as stated: a held objective changes controller only at an update
\* where non-shaken units of the other side are within 3 inches and none of
\* the holder's are; with both sides present the holder stays in control
C14_HolderKeepsContestedObjective ==
    (last.op = "updateObjectiveControlAtTurnEnd"
     /\ last.before[1].controller \in Sides
     /\ objectives[1].controller # last.before[1].controller) =>
        /\ NonShakenWithin3(Other(last.before[1].controller)) # {}
        /\ NonShakenWithin3(last.before[1].controller) = {}

\* C14: a held objective keeps its controller at every update where no
\* non-shaken unit of the other side is within 3 inches; it goes to the
\* other side when only the other side is present and to nobody when both
\* sides are present
C14_HolderLosesOnlyToPresence ==
    (last.op = "updateObjectiveControlAtTurnEnd"
     /\ last.before[1].controller \in Sides) =>
        /\ NonShakenWithin3(Other(last.before[1].controller)) = {}
              => objectives[1].controller = last.before[1].controller
        /\ NonShakenWithin3(Other(last.before[1].controller)) # {}
              => objectives[1].controller =
                    IF NonShakenWithin3(last.before[1].controller) = {}
                    THEN Other(last.before[1].controller) ELSE Null

\* the defenders held the objective, only shaken attackers stand next to it
\* and no defender does, and the defenders still hold it after the update
C14_Witness ==
    /\ last.op = "updateObjectiveControlAtTurnEnd"
    /\ last.before[1].controller = "defenders"
    /\ NonShakenWithin3("attackers") = {}
    /\ NonShakenWithin3("defenders") = {}
    /\ \E id \in SeqToSet(clusterCache.attackers) :
          clusters[id].shaken /\ isUnitNearPoint(clusters[id], objectives[1], 300)
    /\ objectives[1].controller = "defenders"

(***************************************************************************)
(* Morale (game_core_logic.js, performMoraleTest).  A world is the pair    *)
(* [clusters, clusterCache] the handlers read and write; the dice are the  *)
(* rollDie() results in call order: the quality roll (unless the unit is   *)
(* already shaken), the Fearless re-roll, the Hold the Line rolls.         *)
(***************************************************************************)
World(cs, cache) == [clusters |-> cs, clusterCache |-> cache]

\* clusterCache[side] = clusterCache[side].filter(c => c.id !== id)
WithoutId(roster, id) == SelectSeq(roster, LAMBDA c : c # id)

\* side = attackers.some(c => c.id === id) ? "attackers" : "defenders"
SideListing(cache, id) ==
    IF id \in SeqToSet(cache.attackers) THEN "attackers" ELSE "defenders"

\* the unit leaves the roster that lists it and its model count is zeroed
RemoveAndZero(w, id) ==
    World([w.clusters EXCEPT ![id].currentModels = 0],
          [w.clusterCache EXCEPT ![SideListing(w.clusterCache, id)] =
              WithoutId(@, id)])

QualityToTest(unitCluster) ==
    IF Len(unitCluster.unitGroupData.subUnits) = 0 THEN 6
    ELSE unitCluster.unitGroupData.subUnits[1].quality

MoralePassed(roll, qualityToTest) ==
    roll = 6 \/ (roll > 1 /\ roll >= qualityToTest)

QualityRolls(unitCluster) == IF unitCluster.shaken THEN 0 ELSE 1

TestFailedInitially(unitCluster, dice) ==
    unitCluster.shaken \/ ~MoralePassed(dice[1], QualityToTest(unitCluster))

\* fearlessModelsCount > totalModels / 2
UnitIsFearless(unitCluster) ==
    LET sub == unitCluster.unitGroupData.subUnits
    IN  2 * SumSeq([i \in 1..Len(sub) |->
                      IF sub[i].special.fearless THEN sub[i].models ELSE 0])
          > unitCluster.totalModels

FearlessAt(unitCluster) == QualityRolls(unitCluster) + 1

FailureAfterFearless(unitCluster, dice) ==
    /\ TestFailedInitially(unitCluster, dice)
    /\ ~(UnitIsFearless(unitCluster) /\ dice[FearlessAt(unitCluster)] >= 4)

ActiveSubUnits(unitCluster) ==
    {i \in 1..Len(unitCluster.subUnitStates) :
        unitCluster.subUnitStates[i].currentModelsInSubUnit > 0}

\* a surviving sub-unit has Hold the Line, or more than half of the
\* surviving sub-units are Robots
UnitHasHoldTheLine(unitCluster) ==
    LET sus == unitCluster.subUnitStates
        active == ActiveSubUnits(unitCluster)
        robots == {i \in active : sus[i].originalSubUnitData.special.robot}
    IN  \/ \E i \in active : sus[i].originalSubUnitData.special.holdTheLine
        \/ (Cardinality(active) > 0
            /\ 2 * Cardinality(robots) > Cardinality(active))

WoundsToDestroyUnit(unitCluster) ==
    LET sus == unitCluster.subUnitStates
    IN  SumSeq([i \in 1..Len(sus) |->
          IF sus[i].currentModelsInSubUnit > 0
          THEN sus[i].woundsPerModel - sus[i].woundsOnCurrentModelInSubUnit
               + (IF sus[i].currentModelsInSubUnit > 1
                  THEN (sus[i].currentModelsInSubUnit - 1) * sus[i].woundsPerModel
                  ELSE 0)
          ELSE 0])

HoldTheLineFrom(unitCluster) ==
    QualityRolls(unitCluster) + (IF UnitIsFearless(unitCluster) THEN 1 ELSE 0) + 1

\* one wound per Hold the Line die showing 3 or less
DamageFromHtL(unitCluster, dice) ==
    Cardinality({i \in 0..(WoundsToDestroyUnit(unitCluster) - 1) :
                    dice[HoldTheLineFrom(unitCluster) + i] <= 3})

\* if (damageFromHtL > 0) applyWoundsToCluster(unitCluster, damageFromHtL)
HoldTheLine(w, id, damageFromHtL) ==
    IF damageFromHtL > 0
    THEN World([w.clusters EXCEPT ![id] =
                  applyWoundsToCluster(@, PacketCount(damageFromHtL)).cluster],
               w.clusterCache)
    ELSE w

IsHalfStrengthOrLess(unitCluster) ==
    \/ 2 * unitCluster.currentModels <= unitCluster.totalModels
    \/ /\ unitCluster.currentModels = 1
       /\ \E i \in ActiveSubUnits(unitCluster) :
            /\ \A j \in ActiveSubUnits(unitCluster) : i <= j
            /\ 2 * unitCluster.subUnitStates[i].woundsOnCurrentModelInSubUnit
                 >= unitCluster.subUnitStates[i].woundsPerModel

\* the final failure with the rout applied to every kind of test
FinalFailureRoutsInAnyTest(w, id, isMeleeTest) ==
    IF IsHalfStrengthOrLess(w.clusters[id])
    THEN RemoveAndZero(w, id)
    ELSE World([w.clusters EXCEPT ![id].shaken = TRUE], w.clusterCache)

\* the final failure: a melee loser at half strength or less routs, every
\* other failing unit becomes shaken
FinalFailure(w, id, isMeleeTest) ==
    IF isMeleeTest /\ IsHalfStrengthOrLess(w.clusters[id])
    THEN RemoveAndZero(w, id)
    ELSE World([w.clusters EXCEPT ![id].shaken = TRUE], w.clusterCache)

\* performMoraleTest without the removal of the already shaken unit
AfterAutoFailKeepingUnit(w, id) == w

\* the already shaken unit is removed outright before the re-rolls
AfterAutoFail(w, id) ==
    IF w.clusters[id].shaken THEN RemoveAndZero(w, id) ELSE w

performMoraleTest(w, id, isMeleeTest, dice) ==
    IF w.clusters[id].currentModels <= 0 THEN w
    ELSE IF ~FailureAfterFearless(w.clusters[id], dice)
         THEN AfterAutoFail(w, id)
    ELSE IF UnitHasHoldTheLine(w.clusters[id])
         THEN HoldTheLine(AfterAutoFail(w, id), id,
                          DamageFromHtL(w.clusters[id], dice))
    ELSE FinalFailure(AfterAutoFail(w, id), id, isMeleeTest)

\* the dice one morale test of the unit can consume
MoraleDice(unitCluster) ==
    UNION {IF FailureAfterFearless(unitCluster, d2)
              /\ UnitHasHoldTheLine(unitCluster)
           THEN WithRolls(d2, WoundsToDestroyUnit(unitCluster))
           ELSE {d2} : d2 \in
      UNION {IF TestFailedInitially(unitCluster, d1)
                /\ UnitIsFearless(unitCluster)
             THEN WithRolls(d1, 1)
             ELSE {d1} : d1 \in [1..QualityRolls(unitCluster) -> Die]}}

(***************************************************************************)
(* Specification SpecMorale: one unit on a roster takes wounds from enemy  *)
(* attacks, takes morale tests with any dice, and recovers when it idles.  *)
(***************************************************************************)
\* a line of two one-wound models, a single two-wound model, and a Tough(2)
\* robot crewed by two one-wound models
MoraleLine(flags) ==
    UnitGroup("Line", <<SubUnit("Line", 2, 4, 4, <<Rifle(2)>>,
                                Special(flags, 0, 0))>>)
MoraleChampion(flags) ==
    UnitGroup("Champion", <<SubUnit("Champion", 1, 4, 4, <<Rifle(1)>>,
                                    Special(flags, 2, 0))>>)
MoraleRobotCrew ==
    UnitGroup("Robot & Crew",
        <<SubUnit("Robot", 1, 4, 4, <<Rifle(1)>>, Special({"robot"}, 2, 0)),
          SubUnit("Loader", 1, 4, 4, <<Rifle(1)>>, Special({}, 0, 0)),
          SubUnit("Gunner", 1, 4, 4, <<Rifle(1)>>, Special({}, 0, 0))>>)

MoraleGroups ==
    {MoraleLine(f) : f \in SUBSET {"fearless", "holdTheLine"}}
    \cup {MoraleChampion(f) : f \in SUBSET {"fearless"}}
    \cup {MoraleRobotCrew}

InitMorale ==
    /\ \E g \in MoraleGroups, side \in Sides :
          /\ clusters = <<createUnitCluster(g, side, 1, 0, 0, 0, 0)>>
          /\ clusterCache = [s \in Sides |-> IF s = side THEN <<1>> ELSE <<>>]
          /\ currentTurn = Other(side)
    /\ objectives = <<>>
    /\ currentRound = 1
    /\ playerWhoFinishedLastRoundFirst = Null
    /\ playerWhoStartedCurrentRound = "attackers"
    /\ pc = "morale"
    /\ act = NoAct
    /\ last = NoLast
    /\ hist = NoHist

moraleVars == <<objectives, currentTurn, currentRound,
                playerWhoFinishedLastRoundFirst, playerWhoStartedCurrentRound,
                pc, act, hist>>

\* the unit is wounded by an enemy attack and leaves the enemy roster when
\* no model is left (aiExecuteShootAction, aiExecuteMeleeAction)
TakeWounds ==
    /\ pc = "morale"
    /\ clusters[1].currentModels > 0
    /\ \E n \in 1..MaxPackets :
          LET r == applyWoundsToCluster(clusters[1], PacketCount(n))
          IN  /\ clusters' = <<r.cluster>>
              /\ clusterCache' =
                    IF r.cluster.currentModels <= 0
                    THEN [clusterCache EXCEPT ![Other(currentTurn)] =
                              WithoutId(@, 1)]
                    ELSE clusterCache
              /\ last' = [op |-> "applyWoundsToCluster",
                          modelsKilledCount |-> r.modelsKilledCount]
    /\ UNCHANGED moraleVars

\* performMoraleTest(unit, reason, isMeleeTest) with the dice it rolls
MoraleTest ==
    /\ pc = "morale"
    /\ \E isMeleeTest \in BOOLEAN, dice \in MoraleDice(clusters[1]) :
          LET w == performMoraleTest(World(clusters, clusterCache), 1,
                                     isMeleeTest, dice)
          IN  /\ clusters' = w.clusters
              /\ clusterCache' = w.clusterCache
              /\ last' = [op |-> "performMoraleTest", dice |-> dice,
                          isMeleeTest |-> isMeleeTest,
                          wasShaken |-> clusters[1].shaken,
                          modelsBefore |-> clusters[1].currentModels]
    /\ UNCHANGED moraleVars

\* the Idle action of a shaken unit: unitCluster.shaken = false
Recover ==
    /\ pc = "morale"
    /\ 1 \in SeqToSet(clusterCache.attackers) \cup SeqToSet(clusterCache.defenders)
    /\ clusters[1].shaken
    /\ clusters' = [clusters EXCEPT ![1].shaken = FALSE]
    /\ last' = [op |-> "Idle"]
    /\ UNCHANGED <<clusterCache, moraleVars>>

NextMorale == TakeWounds \/ MoraleTest \/ Recover

SpecMorale == InitMorale /\ [][NextMorale]_vars

Listed == SeqToSet(clusterCache.attackers) \cup SeqToSet(clusterCache.defenders)

\* C3: a morale test of a unit that is already shaken and has models left
\* ends with the unit on neither roster and with currentModels = 0, whatever
\* the dice, the kind of test and the unit's special rules
C3_ShakenUnitIsRemoved ==
    (last.op = "performMoraleTest" /\ last.wasShaken /\ last.modelsBefore > 0)
        => (1 \notin Listed /\ clusters[1].currentModels = 0)

\* a shaken unit for which Hold the Line applies (its robot outlived the
\* crew) has taken a non-melee morale test with Hold the Line dice
C3_Witness ==
    /\ last.op = "performMoraleTest" /\ last.wasShaken /\ last.modelsBefore > 0
    /\ ~last.isMeleeTest
    /\ UnitHasHoldTheLine(clusters[1])
    /\ Len(last.dice) > 0

\* the quality roll of the test failed, and neither Fearless nor Hold the
\* Line / Robot turned the failure into a pass
FailedForGood(unitCluster, dice) ==
    /\ ~unitCluster.shaken
    /\ unitCluster.currentModels > 0
    /\ dice[1] # 6
    /\ (dice[1] = 1 \/ dice[1] < unitCluster.unitGroupData.subUnits[1].quality)
    /\ UnitIsFearless(unitCluster) => dice[2] < 4
    /\ ~UnitHasHoldTheLine(unitCluster)

\* currentModels <= totalModels / 2, or one model left with wounds of at
\* least half its Tough
AtHalfStrength(unitCluster) ==
    \/ 2 * unitCluster.currentModels <= unitCluster.totalModels
    \/ /\ unitCluster.currentModels = 1
       /\ \E i \in 1..Len(unitCluster.subUnitStates) :
            /\ unitCluster.subUnitStates[i].currentModelsInSubUnit > 0
            /\ 2 * unitCluster.subUnitStates[i].woundsOnCurrentModelInSubUnit
                 >= unitCluster.subUnitStates[i].woundsPerModel

\* C21: a unit that is not shaken and fails its morale test for good
\* becomes shaken and stays on its roster in a non-melee test; in a melee
\* test it leaves its roster when it is at half strength or less, and
\* otherwise becomes shaken and stays.
C21_FailureShakesOrRouts ==
    [][(last'.op = "performMoraleTest" /\ FailedForGood(clusters[1], last'.dice)) =>
         IF last'.isMeleeTest /\ AtHalfStrength(clusters[1])
         THEN (\A s \in Sides : 1 \notin SeqToSet(clusterCache'[s]))
         ELSE /\ clusters'[1].shaken
              /\ clusterCache' = clusterCache
              /\ clusters'[1].currentModels = clusters[1].currentModels]_vars

\* a single Tough(2) model with one wound has lost a melee and routed
C21_Witness ==
    /\ last.op = "performMoraleTest" /\ last.isMeleeTest /\ ~last.wasShaken
    /\ last.modelsBefore = 1 /\ clusters[1].totalModels = 1
    /\ clusters[1].subUnitStates[1].woundsOnCurrentModelInSubUnit = 1
    /\ ~clusters[1].shaken
    /\ 1 \notin Listed

\* C2: after a shooting action, a melee action or a morale test, every
\* cluster listed on a roster has currentModels > 0
C2_ListedClustersHaveModels ==
    \A id \in Listed : clusters[id].currentModels > 0

(***************************************************************************)
(* Shooting (shooting_logic.js, aiExecuteShootAction).  The handlers below *)
(* return the set of results the dice allow; a result carries the world    *)
(* the handler leaves and what it did.                                     *)
(***************************************************************************)
\* the last sub-unit of the group, heroes or not
LastSubUnitOfGroup(targetCluster) ==
    targetCluster.unitGroupData.subUnits[Len(targetCluster.unitGroupData.subUnits)]

\* the sub-unit whose defense is used for the saves: the last sub-unit of
\* the group, or the first surviving non-hero sub-unit when a hero and
\* other models both survive
DefenderSubUnitForSaveRolls(targetCluster) ==
    LET sus == targetCluster.subUnitStates
        sub == targetCluster.unitGroupData.subUnits
        others == {i \in ActiveSubUnits(targetCluster) : ~sus[i].isHeroSubUnit}
        heroes == {i \in ActiveSubUnits(targetCluster) : sus[i].isHeroSubUnit}
    IN  IF heroes # {} /\ others # {}
        THEN sus[CHOOSE i \in others : \A j \in others : i <= j].originalSubUnitData
        ELSE sub[Len(sub)]

\* subUnitState.effectiveWeapons of the state found by the sub-unit's name,
\* else the weapons of the sub-unit definition
WeaponsToUse(cluster, i) ==
    LET sub == cluster.unitGroupData.subUnits
        sus == cluster.subUnitStates
        found == {j \in 1..Len(sus) : sus[j].originalSubUnitData.name = sub[i].name}
    IN  IF found = {} THEN sub[i].weapons
        ELSE sus[CHOOSE j \in found : \A k \in found : j <= k].effectiveWeapons

\* some model of the target is within the range of some model of the acting
\* unit; `reach` is the squared distance between their closest models
isUnitInRangeOfTarget(reach, rangeInches) == reach <= rangeInches * rangeInches

\* the weapons of sub-unit i that reach the target
ShootableWeapons(shooter, i, reach) ==
    SelectSeq(WeaponsToUse(shooter, i), LAMBDA weapon :
        weapon.range > 0 /\ isUnitInRangeOfTarget(reach, weapon.range))

\* allShootableWeaponsFromCluster, as the gameRollAttackSequence calls made
ShootCalls(shooter, target, actionContext, reach) ==
    LET sub == shooter.unitGroupData.subUnits
    IN  ConcatAll([i \in 1..Len(sub) |->
          [k \in 1..Len(ShootableWeapons(shooter, i, reach)) |->
              AttackCall(sub[i], ShootableWeapons(shooter, i, reach)[k],
                         DefenderSubUnitForSaveRolls(target),
                         target.currentModels, actionContext,
                         target.isInCover, FALSE, shooter.unitGroupData)]])

\* the wound packets one attack can produce
PacketOutcomes(c) == {RollAttack(c, dice).woundPackets : dice \in AttackDice(c)}

\* totalDamageToApplyToCluster: the packets of the attacks, in order
RECURSIVE VolleyOutcomes(_)
VolleyOutcomes(calls) ==
    IF calls = <<>> THEN {<<>>}
    ELSE {p \o rest : p \in PacketOutcomes(Head(calls)),
                      rest \in VolleyOutcomes(Tail(calls))}

\* clusterCache[enemySide] loses the destroyed target
RemoveFromEnemySide(w, turn, id) ==
    World(w.clusters, [w.clusterCache EXCEPT ![Other(turn)] = WithoutId(@, id)])

NeedsCasualtyMoraleTest(targetCluster) ==
    IF targetCluster.totalModels > 1
    THEN 2 * targetCluster.currentModels <= targetCluster.totalModels
    ELSE \E i \in ActiveSubUnits(targetCluster) :
            /\ \A j \in ActiveSubUnits(targetCluster) : i <= j
            /\ 2 * (targetCluster.subUnitStates[i].woundsPerModel
                    - targetCluster.subUnitStates[i].woundsOnCurrentModelInSubUnit)
                 <= targetCluster.subUnitStates[i].woundsPerModel

\* the target with the wounds applied
Wounded(w, id, packets) ==
    World([w.clusters EXCEPT ![id] = applyWoundsToCluster(@, packets).cluster],
          w.clusterCache)

ShootResult(w, packets, moraleTest) ==
    [world |-> w, packets |-> packets, moraleTest |-> moraleTest]

\* what follows the wounds: removal of a destroyed target, else the morale
\* test for heavy casualties
AfterShot(w, turn, id, packets) ==
    IF w.clusters[id].currentModels <= 0
    THEN {ShootResult(RemoveFromEnemySide(w, turn, id), packets, FALSE)}
    ELSE IF NeedsCasualtyMoraleTest(w.clusters[id])
    THEN {ShootResult(performMoraleTest(w, id, FALSE, dice), packets, TRUE) :
             dice \in MoraleDice(w.clusters[id])}
    ELSE {ShootResult(w, packets, FALSE)}

VolleyLanded(w, turn, id, packets) ==
    IF packets = <<>> THEN {ShootResult(w, packets, FALSE)}
    ELSE UNION {AfterShot(w1, turn, id, packets) :
                  w1 \in {Wounded(w, id, PacketArray(packets))}}

aiExecuteShootAction(w, turn, shooter, target, actionContext, reach) ==
    UNION {VolleyLanded(w, turn, target, packets) :
             packets \in VolleyOutcomes(
                ShootCalls(w.clusters[shooter], w.clusters[target],
                           actionContext, reach))}

(***************************************************************************)
(* Melee (game_setup.js, aiExecuteMeleeAction)                             *)
(***************************************************************************)
MeleeWeapons(weapons) == SelectSeq(weapons, LAMBDA weapon : weapon.range = 0)

\* fatigue of shaken clusters alone
IsFatiguedWhenShaken(cluster) == cluster.shaken

IsFatigued(cluster) == cluster.hasFoughtInMeleeThisRound \/ cluster.shaken

\* the strikes of the charging unit: every sub-unit of its group, with the
\* melee weapons of its current loadout
StrikeCalls(attacker, defender, originalAction) ==
    LET sub == attacker.unitGroupData.subUnits
    IN  ConcatAll([i \in 1..Len(sub) |->
          [k \in 1..Len(MeleeWeapons(WeaponsToUse(attacker, i))) |->
              AttackCall(sub[i], MeleeWeapons(WeaponsToUse(attacker, i))[k],
                         DefenderSubUnitForSaveRolls(defender),
                         defender.currentModels,
                         ActionContext(originalAction = "Charge", FALSE, FALSE),
                         FALSE, IsFatigued(attacker), attacker.unitGroupData)]])

\* return strikes with the weapons every sub-unit of the defender was listed
\* with, casualties or not
ReturnStrikeCallsAsListed(attacker, defender) ==
    LET sus == defender.subUnitStates
    IN  ConcatAll([i \in 1..Len(sus) |->
          [k \in 1..Len(MeleeWeapons(sus[i].originalSubUnitData.weapons)) |->
              AttackCall(sus[i].originalSubUnitData,
                         MeleeWeapons(sus[i].originalSubUnitData.weapons)[k],
                         attacker.unitGroupData.subUnits[1],
                         attacker.currentModels,
                         ActionContext(FALSE, FALSE, FALSE),
                         FALSE, IsFatigued(defender), defender.unitGroupData)]])

\* the return strikes: every surviving sub-unit state of the defender; the
\* saves are those of the first sub-unit of the charging group
ReturnStrikeCalls(attacker, defender) ==
    LET sus == defender.subUnitStates
    IN  ConcatAll([i \in 1..Len(sus) |->
          IF sus[i].currentModelsInSubUnit > 0
          THEN [k \in 1..Len(MeleeWeapons(sus[i].effectiveWeapons)) |->
                  AttackCall(sus[i].originalSubUnitData,
                             MeleeWeapons(sus[i].effectiveWeapons)[k],
                             attacker.unitGroupData.subUnits[1],
                             attacker.currentModels,
                             ActionContext(FALSE, FALSE, FALSE),
                             FALSE, IsFatigued(defender), defender.unitGroupData)]
          ELSE <<>>])

DamageOutcomes(c) ==
    {RollAttack(c, dice).totalDamageInflicted : dice \in AttackDice(c)}

\* the sums of totalDamageInflicted the attacks can reach
RECURSIVE TotalDamageOutcomes(_)
TotalDamageOutcomes(calls) ==
    IF calls = <<>> THEN {0}
    ELSE {d + rest : d \in DamageOutcomes(Head(calls)),
                     rest \in TotalDamageOutcomes(Tail(calls))}

\* the wounds of a strike, with the destroyed unit left on its roster
StruckAndLeftListed(w, side, id, damage) ==
    IF damage > 0
    THEN World([w.clusters EXCEPT ![id] =
                  applyWoundsToCluster(@, PacketCount(damage)).cluster],
               w.clusterCache)
    ELSE w

\* the wounds of a strike, applied as `damage` one-wound hits, and the
\* removal of the struck unit from the roster of `side` when it is destroyed
Struck(w, side, id, damage) ==
    IF damage > 0
    THEN World([w.clusters EXCEPT ![id] =
                  applyWoundsToCluster(@, PacketCount(damage)).cluster],
               IF applyWoundsToCluster(w.clusters[id], PacketCount(damage))
                    .cluster.currentModels <= 0
               THEN [w.clusterCache EXCEPT ![side] = WithoutId(@, id)]
               ELSE w.clusterCache)
    ELSE w

HasFought(w, id) ==
    World([w.clusters EXCEPT ![id].hasFoughtInMeleeThisRound = TRUE],
          w.clusterCache)

FearBonus(cluster) ==
    SumSeq([i \in 1..Len(cluster.subUnitStates) |->
        IF cluster.subUnitStates[i].currentModelsInSubUnit > 0
        THEN cluster.subUnitStates[i].originalSubUnitData.special.fear
        ELSE 0])

\* the loser by the damage dealt alone, Fear left out
MeleeLoserWithoutFear(w, attacker, defender, damage, returned) ==
    IF ~(w.clusters[attacker].currentModels > 0
         /\ w.clusters[defender].currentModels > 0) THEN 0
    ELSE IF damage > returned THEN defender
    ELSE IF returned > damage THEN attacker
    ELSE 0

\* the unit that takes the melee morale test (0: none)
MeleeLoser(w, attacker, defender, damage, returned) ==
    IF ~(w.clusters[attacker].currentModels > 0
         /\ w.clusters[defender].currentModels > 0) THEN 0
    ELSE IF damage + FearBonus(w.clusters[attacker])
              > returned + FearBonus(w.clusters[defender]) THEN defender
    ELSE IF returned + FearBonus(w.clusters[defender])
              > damage + FearBonus(w.clusters[attacker]) THEN attacker
    ELSE 0

\* fought is the world after the strikes, before any melee morale test
MeleeResult(w, fought, fired, damage, struckBack, returned, loser) ==
    [world |-> w, fought |-> fought, weaponsFired |-> fired, damage |-> damage,
     struckBack |-> struckBack, returned |-> returned, moraleTest |-> loser]

\* melee resolution: the side that dealt less takes a melee morale test
Resolved(w, attacker, defender, damage, struckBack, returned, loser) ==
    IF loser = 0
    THEN {MeleeResult(w, w, TRUE, damage, struckBack, returned, 0)}
    ELSE {MeleeResult(performMoraleTest(w, loser, TRUE, dice), w, TRUE, damage,
                      struckBack, returned, loser) :
             dice \in MoraleDice(w.clusters[loser])}

\* the return strike of a defender that still has models
ReturnStrike(w, turn, attacker, defender, damage) ==
    IF w.clusters[defender].currentModels > 0
    THEN UNION {UNION {Resolved(w2, attacker, defender, damage, TRUE, returned,
                         MeleeLoser(w2, attacker, defender, damage, returned)) :
                    w2 \in {Struck(HasFought(w, defender), turn, attacker, returned)}} :
                  returned \in TotalDamageOutcomes(
                      ReturnStrikeCalls(w.clusters[attacker], w.clusters[defender]))}
    ELSE Resolved(w, attacker, defender, damage, FALSE, 0, 0)

aiExecuteMeleeAction(w, turn, attacker, defender, originalAction) ==
    IF StrikeCalls(w.clusters[attacker], w.clusters[defender], originalAction) = <<>>
    THEN {MeleeResult(w, w, FALSE, 0, FALSE, 0, 0)}
    ELSE UNION {UNION {ReturnStrike(w1, turn, attacker, defender, damage) :
                    w1 \in {Struck(HasFought(w, attacker), Other(turn), defender, damage)}} :
                  damage \in TotalDamageOutcomes(
                      StrikeCalls(w.clusters[attacker], w.clusters[defender],
                                  originalAction))}

(***************************************************************************)
(* Specification Spec: the alternating game loop.  One activation button   *)
(* press (or one pass of playFullRoundAlternating's loop) is               *)
(* activateSingleUnitForCurrentSide followed by finalizeAITurn.            *)
(*                                                                         *)
(* Positions on the board are not part of this specification: the decision *)
(* aiDecideUnitAction takes, the distance at which a shot is taken and the *)
(* sides that have units next to an objective marker are inputs of the     *)
(* actions, ranging over every value the geometry could produce.           *)
(***************************************************************************)
MaxRound == 2

Knife(amount) == Weapon("Knife", amount, 0, 1, 0, NoWeaponSpecial)

Gunners ==
    UnitGroup("Gunners", <<SubUnit("Gunners", 2, 4, 4, <<Rifle(2), Knife(2)>>,
                                   Special({}, 0, 0))>>)
Brute ==
    UnitGroup("Brute", <<SubUnit("Brute", 1, 3, 3, <<Sword(1)>>,
                                 Special({"fearless"}, 2, 0))>>)
Squad ==
    UnitGroup("Squad", <<SubUnit("Squad", 2, 4, 5, <<Rifle(2), Knife(2)>>,
                                 Special({}, 0, 0))>>)

\* (squared) distances between shooter and target: 12 inches and 30 inches
ShotReach == {1200 * 1200, 3000 * 3000}

\* the test of playFullRoundAlternating's guard: activated or shaken
AllActivatedOrShaken(cs, roster) ==
    \A i \in 1..Len(roster) : cs[roster[i]].activated \/ cs[roster[i]].shaken

AllActivated(cs, roster) == \A i \in 1..Len(roster) : cs[roster[i]].activated

\* the sides whose listed units are all activated, recorded the first time
\* there is one in the round
Observe(h, cs, cache) ==
    IF h.firstDone # {} THEN h
    ELSE [h EXCEPT !.firstDone = {s \in Sides : AllActivated(cs, cache[s])}]

NewRound(cs, cache) ==
    Observe([firstDone |-> {},
             bothListed |-> cache.attackers # <<>> /\ cache.defenders # <<>>],
            cs, cache)

Init ==
    /\ clusters = <<createUnitCluster(Gunners, "attackers", 1, 1200, 600, 1074, 537),
                    createUnitCluster(Brute, "attackers", 2, 3600, 600, 3537, 537),
                    createUnitCluster(Squad, "defenders", 3, 2400, 4200, 2274, 4137)>>
    /\ clusterCache = [attackers |-> <<1, 2>>, defenders |-> <<3>>]
    /\ objectives = <<Objective(3600, 2400, Null)>>
    /\ currentTurn = "attackers"
    /\ currentRound = 1
    /\ playerWhoFinishedLastRoundFirst = Null
    /\ playerWhoStartedCurrentRound = "attackers"
    /\ pc = "ready"
    /\ act = NoAct
    /\ last = NoLast
    /\ hist = NewRound(clusters, clusterCache)

\* candidates picked without regard to the activated flag
CandidatesActivatedOrNot(shaken) ==
    {id \in SeqToSet(getAISideCache) : clusters[id].shaken = shaken}

\* candidates picked without regard to the shaken flag
CandidatesShakenOrNot(shaken) ==
    {id \in SeqToSet(getAISideCache) : ~clusters[id].activated}

\* let candidates = aiUnits.filter(u => !u.activated && !u.shaken), or the
\* shaken ones when there is none
Candidates(shaken) ==
    {id \in SeqToSet(getAISideCache) :
        ~clusters[id].activated /\ clusters[id].shaken = shaken}

Enemies == SeqToSet(getEnemySideCache)

\* onActionComplete after the action left one of `results`
Completed(unit, action, target, results) ==
    /\ \E r \in results :
          /\ clusters' = [r.world.clusters EXCEPT ![unit].activated = TRUE]
          /\ clusterCache' = r.world.clusterCache
          /\ last' = [op |-> "activate", unit |-> unit, action |-> action,
                      target |-> target, result |-> r.did,
                      woundsToDestroyTarget |->
                          IF target = 0 THEN 0
                          ELSE WoundsToDestroyUnit(clusters[target])]
    /\ hist' = Observe(hist, clusters', clusterCache')
    /\ pc' = "finalize"
    /\ UNCHANGED <<objectives, currentTurn, currentRound, act,
                   playerWhoFinishedLastRoundFirst, playerWhoStartedCurrentRound>>

Did(w, did) == [world |-> w, did |-> did]

Here == World(clusters, clusterCache)

Shooting(unit, target, actionContext) ==
    IF target = 0 THEN {Did(Here, [shot |-> FALSE])}
    ELSE {Did(r.world, [shot |-> TRUE, moraleTest |-> r.moraleTest]) :
            r \in UNION {aiExecuteShootAction(Here, currentTurn, unit, target,
                                              actionContext, reach) :
                            reach \in ShotReach}}

\* activateSingleUnitForCurrentSide returns null: no unit left to activate
ActivateNone ==
    /\ pc = "ready" /\ currentRound <= MaxRound
    /\ Candidates(FALSE) = {} /\ Candidates(TRUE) = {}
    /\ pc' = "finalize"
    /\ last' = [op |-> "activate", unit |-> 0]
    /\ UNCHANGED <<clusters, clusterCache, objectives, currentTurn,
                   currentRound, playerWhoFinishedLastRoundFirst,
                   playerWhoStartedCurrentRound, act, hist>>

\* only shaken units are left: one of them idles and recovers
ActivateIdle ==
    /\ pc = "ready" /\ currentRound <= MaxRound
    /\ Candidates(FALSE) = {}
    /\ \E unit \in Candidates(TRUE) :
          Completed(unit, "Idle", 0,
            {Did(World([clusters EXCEPT ![unit].shaken = FALSE], clusterCache),
                 [shot |-> FALSE])})

\* Hold: the unit shoots its shoot target, if it has one, in place
ActivateHold ==
    /\ pc = "ready" /\ currentRound <= MaxRound
    /\ \E unit \in Candidates(FALSE), shootTarget \in Enemies \cup {0} :
          Completed(unit, "Hold", shootTarget,
                    Shooting(unit, shootTarget, HoldString))

\* Advance: the unit moves, then shoots its shoot target or the enemy unit
\* it advanced on
ActivateAdvance ==
    /\ pc = "ready" /\ currentRound <= MaxRound
    /\ \E unit \in Candidates(FALSE), finalShootTarget \in Enemies \cup {0} :
          Completed(unit, "Advance", finalShootTarget,
                    Shooting(unit, finalShootTarget, NoContext))

\* Rush: the unit only moves
ActivateRush ==
    /\ pc = "ready" /\ currentRound <= MaxRound
    /\ \E unit \in Candidates(FALSE) :
          Completed(unit, "Rush", 0, {Did(Here, [shot |-> FALSE])})

\* Charge: the unit moves into contact and fights the melee
ActivateCharge ==
    /\ pc = "ready" /\ currentRound <= MaxRound
    /\ \E unit \in Candidates(FALSE), target \in Enemies :
          Completed(unit, "Charge", target,
            {Did(r.world, [weaponsFired |-> r.weaponsFired, damage |-> r.damage,
                           struckBack |-> r.struckBack,
                           returned |-> r.returned,
                           moraleTest |-> r.moraleTest]) :
               r \in aiExecuteMeleeAction(Here, currentTurn, unit, target,
                                          "Charge")})

\* the sides that can have a non-shaken unit next to a marker
CanBeNear == {s \in Sides : \E i \in 1..Len(clusterCache[s]) :
                               ~clusters[clusterCache[s][i]].shaken}

\* u.activated = false; u.hasFoughtInMeleeThisRound = false, for listed units
ResetForRound(cs, cache) ==
    [id \in 1..Len(cs) |->
        IF id \in SeqToSet(cache.attackers) \cup SeqToSet(cache.defenders)
        THEN [cs[id] EXCEPT !.activated = FALSE,
                            !.hasFoughtInMeleeThisRound = FALSE]
        ELSE cs[id]]

\* the next round is started by the side that started this one
NextRoundStarterIgnoringFinisher(finishedFirst, started) == started

\* playerWhoFinishedLastRoundFirst || playerWhoStartedCurrentRound
NextRoundStarter(finishedFirst, started) ==
    IF finishedFirst # Null THEN finishedFirst ELSE started

\* playerWhoFinishedLastRoundFirst after the `if (currentDone)` assignment
FinishedFirst ==
    IF playerWhoFinishedLastRoundFirst = Null THEN currentTurn
    ELSE playerWhoFinishedLastRoundFirst

finalizeAITurn ==
    /\ pc = "finalize"
    /\ \E near \in [1..Len(objectives) -> SUBSET CanBeNear] :
          objectives' = updateObjectiveControlAtTurnEnd(near)
    /\ IF AllActivated(clusters, getAISideCache)
       THEN IF AllActivated(clusters, getEnemySideCache)
            THEN /\ currentRound' = currentRound + 1
                 /\ clusters' = ResetForRound(clusters, clusterCache)
                 /\ currentTurn' = NextRoundStarter(FinishedFirst,
                                        playerWhoStartedCurrentRound)
                 /\ playerWhoStartedCurrentRound' = currentTurn'
                 /\ playerWhoFinishedLastRoundFirst' = Null
                 /\ hist' = NewRound(clusters', clusterCache)
                 /\ last' = [op |-> "finalizeAITurn", roundOver |-> TRUE,
                             firstDone |-> hist.firstDone,
                             bothListed |-> hist.bothListed]
            ELSE /\ playerWhoFinishedLastRoundFirst' = FinishedFirst
                 /\ currentTurn' = Other(currentTurn)
                 /\ last' = [op |-> "finalizeAITurn", roundOver |-> FALSE]
                 /\ UNCHANGED <<clusters, currentRound, hist,
                                playerWhoStartedCurrentRound>>
       ELSE /\ currentTurn' = Other(currentTurn)
            /\ last' = [op |-> "finalizeAITurn", roundOver |-> FALSE]
            /\ UNCHANGED <<clusters, currentRound, hist,
                           playerWhoFinishedLastRoundFirst,
                           playerWhoStartedCurrentRound>>
    /\ pc' = "ready"
    /\ UNCHANGED <<clusterCache, act>>

Next ==
    \/ ActivateNone
    \/ ActivateIdle
    \/ ActivateHold
    \/ ActivateAdvance
    \/ ActivateRush
    \/ ActivateCharge
    \/ finalizeAITurn

Spec == Init /\ [][Next]_vars

\* the step is a charge in which the charging cluster struck
MeleeFought ==
    /\ last'.op = "activate" /\ last'.unit # 0
    /\ last'.action = "Charge" /\ last'.result.weaponsFired

\* the cluster takes part in the melee of the step: it is the charging
\* cluster, or the charged cluster and survives the strikes
TakesPartInMelee(id) ==
    /\ MeleeFought
    /\ id = last'.unit \/ (id = last'.target /\ last'.result.struckBack)

RoundBoundary == last'.op = "finalizeAITurn" /\ last'.roundOver

\* the charged cluster when it strikes back
ChargedWhenStrikingBack ==
    IF last'.result.damage > 0
    THEN applyWoundsToCluster(clusters[last'.target],
                              PacketCount(last'.result.damage)).cluster
    ELSE clusters[last'.target]

\* every die of the strike hits exactly on a 6 when the cluster is fatigued,
\* and the strike is fatigued exactly when the cluster is
HitsAsFatigued(c, cluster) ==
    /\ IsMelee(c.weapon)
    /\ c.isAttackerFatigued = (cluster.hasFoughtInMeleeThisRound \/ cluster.shaken)
    /\ c.isAttackerFatigued =>
          \A roll \in Die :
              (HitsOfRoll(c.attackerSubUnit, c.weapon, roll,
                          QTarget(c.attackerSubUnit, c.weapon, c.actionContext,
                                  c.isAttackerFatigued),
                          ExtraHitThreshold(c.attackerSubUnit, c.weapon,
                                            c.actionContext, c.group),
                          c.isAttackerFatigued) # <<>>) = (roll = 6)

StrikesHitAsFatigued(calls, cluster) ==
    \A k \in DOMAIN calls : HitsAsFatigued(calls[k], cluster)

\* C24: a listed cluster carries the fatigue flag exactly when it has taken
\* part in a melee since the last round boundary (it charged and struck, or
\* it was charged and survived the strikes); the flag is cleared at the
\* round boundary and nowhere else; and every strike of a melee, by the
\* charging cluster or in return, is fatigued exactly when the striking
\* cluster carries the flag or is shaken, a fatigued die hitting on a 6 and
\* on nothing else.
C24_FatiguedAfterFirstMelee ==
    [][/\ \A id \in SeqToSet(clusterCache'.attackers) \cup SeqToSet(clusterCache'.defenders) :
            clusters'[id].hasFoughtInMeleeThisRound =
                IF RoundBoundary THEN FALSE
                ELSE clusters[id].hasFoughtInMeleeThisRound \/ TakesPartInMelee(id)
       /\ MeleeFought =>
            /\ StrikesHitAsFatigued(
                  StrikeCalls(clusters[last'.unit], clusters[last'.target], "Charge"),
                  clusters[last'.unit])
            /\ last'.result.struckBack =>
                  StrikesHitAsFatigued(
                      ReturnStrikeCalls(clusters[last'.unit], ChargedWhenStrikingBack),
                      clusters[last'.target])]_vars

\* cluster 3, which has fought cluster 1 earlier in the round, is charged by
\* cluster 2 and wounds it with its fatigued return strike
C24_Witness ==
    /\ last.op = "activate" /\ last.unit = 2 /\ last.action = "Charge"
    /\ last.target = 3
    /\ clusters[1].activated /\ clusters[1].hasFoughtInMeleeThisRound
    /\ ~clusters[3].shaken
    /\ last.result.struckBack /\ last.result.returned > 0

\* C30: an activation picks a cluster of the roster of the side to move
\* whose activated flag is false and leaves the flag true; no other step
\* sets the flag of any cluster, and the flag goes back to false only in a
\* step that increments the round number.  A cluster therefore performs at
\* most one action between two round boundaries.
C30_OneActionPerRound ==
    [][/\ (last'.op = "activate" /\ last'.unit # 0) =>
             /\ last'.unit \in SeqToSet(clusterCache[currentTurn])
             /\ ~clusters[last'.unit].activated
             /\ clusters'[last'.unit].activated
             /\ currentRound' = currentRound
       /\ \A id \in DOMAIN clusters :
             /\ (clusters[id].activated /\ ~clusters'[id].activated) =>
                    currentRound' = currentRound + 1
             /\ (~clusters[id].activated /\ clusters'[id].activated) =>
                    (last'.op = "activate" /\ last'.unit = id)]_vars

\* the second round: a cluster that acted in the first round has acted
\* again, while another cluster of the rosters still waits for its action
C30_Witness ==
    /\ currentRound = 2 /\ pc = "finalize"
    /\ last.op = "activate" /\ last.unit # 0
    /\ clusters[last.unit].activated
    /\ \E id \in Listed : ~clusters[id].activated

\* C31: an activation is always followed by finalizeAITurn before the next
\* activation, and a finalizeAITurn that does not end the round hands the
\* turn to the side opposite to the one that had it, whether or not that
\* side has an unactivated unit left; within a round no side activates two
\* units in a row.
C31_TurnsAlternate ==
    [][/\ last'.op = "activate" =>
             (pc = "ready" /\ pc' = "finalize" /\ currentTurn' = currentTurn
              /\ currentRound' = currentRound)
       /\ pc = "finalize" =>
             /\ last'.op = "finalizeAITurn" /\ pc' = "ready"
             /\ ~last'.roundOver =>
                   (currentTurn' = (IF currentTurn = "attackers" THEN "defenders"
                                    ELSE "attackers")
                    /\ currentRound' = currentRound)]_vars

\* the turn has gone to a side whose units have all been activated while
\* the side that just acted still has a unit waiting
C31_Witness ==
    /\ last.op = "finalizeAITurn" /\ ~last.roundOver /\ pc = "ready"
    /\ clusterCache[currentTurn] # <<>>
    /\ \A id \in SeqToSet(clusterCache[currentTurn]) : clusters[id].activated
    /\ \E id \in SeqToSet(clusterCache[Other(currentTurn)]) : ~clusters[id].activated

\* C9: when the melee strikes of a charge inflict more wound points than the
\* defender has left, the defender ends with exactly 0 models, is removed
\* from its roster, makes no return strike and no melee morale test is taken
C9_SurplusMeleeDamageIsDiscarded ==
    (/\ last.op = "activate" /\ last.unit # 0 /\ last.action = "Charge"
     /\ last.result.weaponsFired
     /\ last.result.damage > last.woundsToDestroyTarget)
        => /\ clusters[last.target].currentModels = 0
           /\ last.target \notin Listed
           /\ ~last.result.struckBack
           /\ last.result.moraleTest = 0

\* a charge has dealt 2 wounds to a defender that had a single wound left
C9_Witness ==
    /\ last.op = "activate" /\ last.unit # 0 /\ last.action = "Charge"
    /\ last.result.weaponsFired
    /\ last.woundsToDestroyTarget = 1
    /\ last.result.damage = 2
    /\ clusters[last.target].currentModels = 0

BothRostersActivated ==
    /\ AllActivated(clusters, clusterCache.attackers)
    /\ AllActivated(clusters, clusterCache.defenders)

\* C4 as stated: the round counter changes only at a finalizeAITurn call at
\* which every listed cluster is activated, it increases by exactly 1, and
\* the side that acts first in the new round is a side whose units were all
\* activated first during the round just ended
C4_FirstFinisherStartsNextRound ==
    [][currentRound' # currentRound =>
          /\ pc = "finalize" /\ BothRostersActivated
          /\ currentRound' = currentRound + 1
          /\ currentTurn' \in hist.firstDone]_vars

\* C4, amended: the round counter changes only at a finalizeAITurn call at
\* which every listed cluster is activated and it increases by exactly 1;
\* if both rosters listed a cluster when the round started, the side that
\* acts first in the new round is a side whose units were all activated
\* first during the round just ended
C4_FirstFinisherStartsUnlessRosterEmpty ==
    [][currentRound' # currentRound =>
          /\ pc = "finalize" /\ BothRostersActivated
          /\ currentRound' = currentRound + 1
          /\ (hist.bothListed => currentTurn' \in hist.firstDone)]_vars

\* round 2 has just started with the defenders, who alone had all their
\* units activated first in round 1
C4_Witness ==
    /\ last.op = "finalizeAITurn" /\ last.roundOver
    /\ last.bothListed /\ last.firstDone = {"defenders"}
    /\ currentRound = 2 /\ currentTurn = "defenders"

(***************************************************************************)
(* AI decision (ai_logic.js, aiDecideUnitAction).  Targets are             *)
(* [kind, ref]: an enemy cluster id, an objective index, a board position  *)
(* or nothing.  A decision is [threw |-> FALSE, action, target,            *)
(* shootTarget]; a call that ends in an uncaught TypeError is              *)
(* [threw |-> TRUE, line].                                                 *)
(***************************************************************************)
NoTarget == [kind |-> "none", ref |-> 0]
UnitTarget(id) == IF id = 0 THEN NoTarget ELSE [kind |-> "unit", ref |-> id]
ObjectiveTarget(i) == [kind |-> "objective", ref |-> i]
PositionTarget == [kind |-> "position", ref |-> 0]

Decision(action, target, shootTarget) ==
    [threw |-> FALSE, action |-> action, target |-> target,
     shootTarget |-> shootTarget]
Threw(line) == [threw |-> TRUE, line |-> line]

\* distance({x: u.cxIn, y: u.cyIn}, {x: p.x, y: p.y}) squared
CentreDist2(u, p) == Dist2(u.cxIn, u.cyIn, p.x, p.y)

\* getMinDistanceBetweenClusters, squared
MinDist2(clusterA, clusterB) ==
    LET d == {Dist2(clusterA.models[i].x, clusterA.models[i].y,
                    clusterB.models[j].x, clusterB.models[j].y) :
                 i \in 1..Len(clusterA.models), j \in 1..Len(clusterB.models)}
    IN  CHOOSE m \in d : \A n \in d : m <= n

isObjectiveContested(objective, unit) ==
    LET friendliesInRange == SelectSeq(getAISideCache, LAMBDA id :
                                CentreDist2(clusters[id], objective) <= 300 * 300)
    IN  /\ \E i \in 1..Len(getEnemySideCache) :
              CentreDist2(clusters[getEnemySideCache[i]], objective) <= 300 * 300
        /\ Len(friendliesInRange) = 1
        /\ clusters[friendliesInRange[1]].name = clusters[unit].name

isFriendlyForceNearObjective(objective) ==
    \E i \in 1..Len(getAISideCache) :
        CentreDist2(clusters[getAISideCache[i]], objective) <= 300 * 300

\* the indices of the objectives that are not AI-controlled and have no
\* friendly unit nearby, or are contested with this unit as the only friendly
ActionableObjectives(unit) ==
    {i \in 1..Len(objectives) :
        /\ ~isObjectiveUnderAIControl(objectives[i])
        /\ (~isFriendlyForceNearObjective(objectives[i])
            \/ isObjectiveContested(objectives[i], unit))}

\* sortedObjs[0]: the nearest actionable objective, the first in the list
\* among equally near ones (0: none)
ActionableNearestObjective(unit) ==
    LET a == ActionableObjectives(unit)
        d(i) == CentreDist2(clusters[unit], objectives[i])
    IN  IF a = {} THEN 0
        ELSE CHOOSE i \in a : \A j \in a : d(i) < d(j) \/ (d(i) = d(j) /\ i <= j)

\* getUnitMoveValue: 12 inches for charge and rush, 6 for advance, changed
\* by Fast and Slow of the first sub-unit
getUnitMoveValue(unitCluster, moveType) ==
    LET baseDist == IF moveType = "advance" THEN 600 ELSE 1200
        modifier == IF moveType = "advance" THEN 200 ELSE 400
        special == unitCluster.unitGroupData.subUnits[1].special
    IN  Max(0, baseDist + (IF special.fast THEN modifier ELSE 0)
                        - (IF special.slow THEN modifier ELSE 0))

isTargetInChargeRange(aiUnitCluster, targetEnemyCluster) ==
    MinDist2(aiUnitCluster, targetEnemyCluster)
        <= getUnitMoveValue(aiUnitCluster, "charge")
             * getUnitMoveValue(aiUnitCluster, "charge")

\* the first element of the stably sorted list: the entry of `order` no
\* other entry precedes, the earliest in the roster among equals
FirstSorted(ids, roster, before) ==
    IF ids = {} THEN 0
    ELSE roster[CHOOSE i \in 1..Len(roster) :
            /\ roster[i] \in ids
            /\ \A j \in 1..Len(roster) : roster[j] \in ids =>
                  /\ <<roster[j], roster[i]>> \notin before
                  /\ (j < i => <<roster[i], roster[j]>> \in before)]

\* getBestShootTarget: enemies in range of the longest weapon; out of cover
\* first, then not yet activated first, then nearest (0: null)
getBestShootTarget(unit) ==
    LET u == clusters[unit]
        shootable == {e \in SeqToSet(getEnemySideCache) :
                        /\ Len(clusters[e].models) > 0
                        /\ isUnitInRangeOfTarget(MinDist2(u, clusters[e]),
                                                 u.bestRangeIn)}
    IN  IF getEnemySideCache = <<>> \/ u.bestRangeIn = 0 THEN 0
        ELSE FirstSorted(shootable, getEnemySideCache,
               {<<a, b>> \in shootable \X shootable :
                  \/ (~clusters[a].isInCover /\ clusters[b].isInCover)
                  \/ /\ clusters[a].isInCover = clusters[b].isInCover
                     /\ ~clusters[a].activated /\ clusters[b].activated
                  \/ /\ clusters[a].isInCover = clusters[b].isInCover
                     /\ clusters[a].activated = clusters[b].activated
                     /\ MinDist2(u, clusters[a]) < MinDist2(u, clusters[b])})

\* getBestChargeTarget: enemies in charge range; not yet activated first,
\* then nearest (0: null)
getBestChargeTarget(unit) ==
    LET u == clusters[unit]
        chargeable == {e \in SeqToSet(getEnemySideCache) :
                         /\ Len(clusters[e].models) > 0
                         /\ isTargetInChargeRange(u, clusters[e])}
    IN  FirstSorted(chargeable, getEnemySideCache,
          {<<a, b>> \in chargeable \X chargeable :
             \/ (~clusters[a].activated /\ clusters[b].activated)
             \/ /\ clusters[a].activated = clusters[b].activated
                /\ MinDist2(u, clusters[a]) < MinDist2(u, clusters[b])})

\* getNearestEnemyUnits(unit)[0].unit: nearest centre, not yet activated
\* first among equally near ones (0: none)
NearestEnemy(unit) ==
    LET u == clusters[unit]
        all == SeqToSet(getEnemySideCache)
        d(e) == Dist2(u.cxIn, u.cyIn, clusters[e].cxIn, clusters[e].cyIn)
    IN  FirstSorted(all, getEnemySideCache,
          {<<a, b>> \in all \X all :
             \/ d(a) < d(b)
             \/ (d(a) = d(b) /\ ~clusters[a].activated /\ clusters[b].activated)})

IsMeleeType(type) == type \in {"melee", "melee-focus", "hybrid"}

\* the first `if` of the contested branch: units of a melee type charge an
\* enemy within 3 inches of the objective, else hold; for the other types
\* `decision` stays undefined
ContestedMeleeDecision(unit, obj) ==
    IF getBestChargeTarget(unit) # 0
       /\ CentreDist2(clusters[getBestChargeTarget(unit)], objectives[obj])
            <= 300 * 300
    THEN Decision("Charge", UnitTarget(getBestChargeTarget(unit)), NoTarget)
    ELSE Decision("Hold", ObjectiveTarget(obj), NoTarget)

\* the second `if`: shootCandidate.name is read before the null check
ContestedShootDecision(unit, obj) ==
    IF getBestShootTarget(unit) = 0 THEN Threw(625)
    ELSE IF CentreDist2(clusters[getBestShootTarget(unit)], objectives[obj])
              <= 300 * 300
    THEN Decision("Hold", ObjectiveTarget(obj),
                  UnitTarget(getBestShootTarget(unit)))
    ELSE Decision("Hold", ObjectiveTarget(obj), NoTarget)

\* the branch for a contested nearest actionable objective; it ends with
\* appendLog(debugLog, decision.reason)
ContestedDecision(unit, obj) ==
    IF clusters[unit].type = "shooting"
       \/ (clusters[unit].type = "hybrid"
           /\ ContestedMeleeDecision(unit, obj).action # "Charge")
    THEN ContestedShootDecision(unit, obj)
    ELSE IF IsMeleeType(clusters[unit].type)
    THEN ContestedMeleeDecision(unit, obj)
    ELSE Threw(657)

\* decideActionNoObjective(unit, nearestEnemy)
decideActionNoObjective(nearestEnemy, assess) ==
    IF assess.advantageousPos # 0
    THEN Decision("Advance", PositionTarget, UnitTarget(assess.advantageousPos))
    ELSE IF assess.shootAfterAdvance # 0
    THEN Decision("Advance", UnitTarget(nearestEnemy),
                  UnitTarget(assess.shootAfterAdvance))
    ELSE Decision("Rush", UnitTarget(nearestEnemy), NoTarget)

\* case "shooting": case "shooting-focus":
ShootingDecision(unit, obj, assess) ==
    IF obj # 0
    THEN IF assess.advantageousPos # 0 /\ assess.advantageousPosNearer
         THEN Decision("Advance", PositionTarget,
                       UnitTarget(assess.advantageousPos))
         ELSE IF assess.shootAfterAdvance # 0
         THEN Decision("Advance", ObjectiveTarget(obj),
                       UnitTarget(assess.shootAfterAdvance))
         ELSE Decision("Rush", ObjectiveTarget(obj), NoTarget)
    ELSE IF NearestEnemy(unit) # 0
    THEN decideActionNoObjective(NearestEnemy(unit), assess)
    ELSE Decision("Hold", NoTarget, NoTarget)

\* case "melee": case "melee-focus":
MeleeDecision(unit, obj, assess) ==
    IF getBestChargeTarget(unit) # 0 /\ (obj = 0 \/ assess.enemiesOnPath)
    THEN Decision("Charge", UnitTarget(getBestChargeTarget(unit)), NoTarget)
    ELSE IF obj # 0 /\ ~assess.enemiesOnPath
    THEN Decision("Rush", ObjectiveTarget(obj), NoTarget)
    ELSE IF NearestEnemy(unit) # 0
    THEN Decision("Rush", UnitTarget(NearestEnemy(unit)), NoTarget)
    ELSE IF obj # 0
    THEN Decision("Rush", ObjectiveTarget(obj), NoTarget)
    ELSE Decision("Hold", NoTarget, NoTarget)

IsRelentless(unitCluster) ==
    \E i \in 1..Len(unitCluster.unitGroupData.subUnits) :
        unitCluster.unitGroupData.subUnits[i].special.relentless

\* the decision when the nearest actionable objective (0: none) is not
\* contested.  classifyUnitType never yields "hybrid", whose case is left
\* to the default of the switch here.
UncontestedDecision(unit, obj, assess) ==
    IF IsRelentless(clusters[unit]) /\ getBestShootTarget(unit) # 0
    THEN Decision("Hold", UnitTarget(getBestShootTarget(unit)),
                  UnitTarget(getBestShootTarget(unit)))
    ELSE IF clusters[unit].type \in {"shooting", "shooting-focus"}
    THEN ShootingDecision(unit, obj, assess)
    ELSE IF clusters[unit].type \in {"melee", "melee-focus"}
    THEN MeleeDecision(unit, obj, assess)
    ELSE Decision("Hold", UnitTarget(getBestShootTarget(unit)),
                  UnitTarget(getBestShootTarget(unit)))

\* `assess` holds the results of the path and movement look-ahead helpers
\* (areEnemiesOnPath, findAdvantageousAdvancePosition,
\* getShootTargetAfterAdvance), which are inputs here
aiDecideUnitAction(unit, assess) ==
    IF clusters[unit].shaken THEN Decision("Idle", NoTarget, NoTarget)
    ELSE IF ActionableNearestObjective(unit) # 0
            /\ isObjectiveContested(
                  objectives[ActionableNearestObjective(unit)], unit)
    THEN ContestedDecision(unit, ActionableNearestObjective(unit))
    ELSE UncontestedDecision(unit, ActionableNearestObjective(unit), assess)

(***************************************************************************)
(* Specification SpecAI: one call of aiDecideUnitAction for an attacker    *)
(* of each type on a board with three objectives, a second attacker and    *)
(* at most one defender.                                                   *)
(***************************************************************************)
Pistol(amount) == Weapon("Pistol", amount, 600, 1, 0, NoWeaponSpecial)

\* one single-model group per unit type, and a shooting group whose only
\* weapon reaches 6 inches
AIGroups ==
    {UnitGroup(name, <<SubUnit(name, 1, 4, 4, weapons, Special({}, 0, 0))>>) :
        <<name, weapons>> \in
            {<<"Swordsman", <<Sword(1)>>>>, <<"Rifleman", <<Rifle(1)>>>>,
             <<"Duellist", <<Sword(1), Rifle(1)>>>>,
             <<"Marksman", <<Rifle(1), Knife(1)>>>>,
             <<"Pistoleer", <<Pistol(1)>>>>}}

\* a cluster deployed with its footprint centred on (cx, cy)
Deployed(group, side, id, cx, cy) ==
    createUnitCluster(group, side, id, cx, cy,
        cx - createUnitCluster(group, side, id, 0, 0, 0, 0).wIn \div 2,
        cy - createUnitCluster(group, side, id, 0, 0, 0, 0).hIn \div 2)

\* the deciding unit stands 3 inches below the first objective or 20 inches
\* to its left
OwnPositions == {<<3600, 2100>>, <<1600, 2400>>}

\* the defender stands 3 inches above the first objective, 18 inches to its
\* right, or 40 inches to its right
EnemyPositions == {<<3600, 2700>>, <<5400, 2400>>, <<7600, 2400>>}

Defenders ==
    {<<>>} \cup
    {<<[Deployed(g, "defenders", 3, p[1], p[2]) EXCEPT !.activated = a]>> :
        g \in {Trooper, Pair}, p \in EnemyPositions, a \in BOOLEAN}

InitAI ==
    /\ \E g \in AIGroups, p \in OwnPositions, shaken \in BOOLEAN,
          friendNear \in BOOLEAN, d \in Defenders :
          /\ clusters =
               <<[Deployed(g, "attackers", 1, p[1], p[2]) EXCEPT !.shaken = shaken],
                 IF friendNear
                 THEN Deployed(Trooper, "attackers", 2, 3400, 2400)
                 ELSE Deployed(Trooper, "attackers", 2, 600, 600)>>
               \o d
          /\ clusterCache = [attackers |-> <<1, 2>>,
                             defenders |-> IF d = <<>> THEN <<>> ELSE <<3>>]
    /\ \E c \in {Null, "attackers", "defenders"}, held \in {Null, "attackers"} :
          objectives = <<Objective(3600, 2400, c), Objective(600, 4200, held),
                         Objective(6600, 600, held)>>
    /\ currentTurn = "attackers"
    /\ currentRound = 1
    /\ playerWhoFinishedLastRoundFirst = Null
    /\ playerWhoStartedCurrentRound = "attackers"
    /\ pc = "decide"
    /\ act = [unit |-> 1]
    /\ last = NoLast
    /\ hist = NoHist

\* what the look-ahead helpers can report to the deciding unit
Assessments ==
    [enemiesOnPath : BOOLEAN,
     advantageousPos : Enemies \cup {0},
     advantageousPosNearer : BOOLEAN,
     shootAfterAdvance : Enemies \cup {0}]

\* const decision = aiDecideUnitAction(unitToActivate)
DecideUnitAction ==
    /\ pc = "decide"
    /\ \E assess \in Assessments :
          last' = [op |-> "aiDecideUnitAction", unit |-> act.unit,
                   assess |-> assess,
                   decision |-> aiDecideUnitAction(act.unit, assess)]
    /\ pc' = "decided"
    /\ UNCHANGED <<clusters, clusterCache, objectives, currentTurn,
                   currentRound, playerWhoFinishedLastRoundFirst,
                   playerWhoStartedCurrentRound, act, hist>>

NextAI == DecideUnitAction

SpecAI == InitAI /\ [][NextAI]_vars

\* C5: aiDecideUnitAction returns a decision whose action is Idle, Hold,
\* Advance, Rush or Charge for a unit of every type on every board; it never
\* fails and never ends without a decision
C5_DecisionIsAlwaysReturned ==
    last.op = "aiDecideUnitAction" =>
        /\ ~last.decision.threw
        /\ last.decision.action \in {"Idle", "Hold", "Advance", "Rush", "Charge"}


\* the look-ahead helpers find nothing for a unit without a ranged weapon
\* (unit.bestRangeIn === 0) and nothing when there is no enemy
Foreseeable(unit, assess) ==
    (clusters[unit].bestRangeIn = 0 \/ Enemies = {}) =>
        (assess.advantageousPos = 0 /\ assess.shootAfterAdvance = 0)

\* a call for a unit that is not shaken, has no actionable objective and
\* no Relentless shot
DecidedWithoutObjective ==
    /\ last.op = "aiDecideUnitAction"
    /\ ~clusters[last.unit].shaken
    /\ ActionableNearestObjective(last.unit) = 0
    /\ ~(IsRelentless(clusters[last.unit]) /\ getBestShootTarget(last.unit) # 0)
    /\ Foreseeable(last.unit, last.assess)

\* the order of decisions stated for a unit without an objective
OrderWithoutObjective(unit, assess) ==
    IF getBestChargeTarget(unit) # 0
    THEN Decision("Charge", UnitTarget(getBestChargeTarget(unit)), NoTarget)
    ELSE IF NearestEnemy(unit) = 0
    THEN Decision("Hold", NoTarget, NoTarget)
    ELSE IF assess.advantageousPos # 0
    THEN Decision("Advance", PositionTarget, UnitTarget(assess.advantageousPos))
    ELSE IF assess.shootAfterAdvance # 0
    THEN Decision("Advance", UnitTarget(NearestEnemy(unit)),
                  UnitTarget(assess.shootAfterAdvance))
    ELSE Decision("Rush", UnitTarget(NearestEnemy(unit)), NoTarget)

\* C33: with no actionable objective a unit of any type that is not shaken
\* and has no Relentless shot charges an enemy in charge range; else
\* advances to an advantageous position; else advances towards the nearest
\* enemy when a shot opens after the advance; else rushes the nearest
\* enemy; and holds when there is no enemy
C33_NoObjectiveOrder ==
    DecidedWithoutObjective =>
        /\ ~last.decision.threw
        /\ last.decision.action
              = OrderWithoutObjective(last.unit, last.assess).action
        /\ last.decision.target
              = OrderWithoutObjective(last.unit, last.assess).target


\* C11: right after the finalizeAITurn call that increments currentRound,
\* every cluster listed on either roster has activated, shaken and
\* hasFoughtInMeleeThisRound all false
C11_FlagsResetAtRoundBoundary ==
    (last.op = "finalizeAITurn" /\ last.roundOver) =>
        \A s \in Sides : \A i \in 1..Len(clusterCache[s]) :
            /\ ~clusters[clusterCache[s][i]].activated
            /\ ~clusters[clusterCache[s][i]].shaken
            /\ ~clusters[clusterCache[s][i]].hasFoughtInMeleeThisRound

\* C17: whenever a shaken unit is activated its action is Idle: no cluster
\* moves, is wounded or removed in that activation, and when the activation
\* completes the unit's shaken flag is false and its activated flag is true.
C17_ShakenUnitIdles ==
    [][(pc = "ready" /\ last'.op = "activate" /\ last'.unit # 0
          /\ clusters[last'.unit].shaken) =>
            /\ last'.action = "Idle"
            /\ clusters' = [clusters EXCEPT ![last'.unit].shaken = FALSE,
                                            ![last'.unit].activated = TRUE]
            /\ clusterCache' = clusterCache]_vars

\* a unit that was shaken has idled: it is activated and no longer shaken
C17_Witness ==
    /\ last.op = "activate" /\ last.unit # 0
    /\ last.action = "Idle"
    /\ clusters[last.unit].activated /\ ~clusters[last.unit].shaken


(***************************************************************************)
(* Movement (renderer.js animateUnitMovement, ai_logic.js                  *)
(* aiPerformDecidedAction, game_setup.js resolvePostChargeSeparation).     *)
(* Lengths are whole hundredths of an inch: a quotient or a square root is *)
(* rounded down to the hundredth.                                          *)
(***************************************************************************)
\* one step of Newton's iteration for the square root of n
IsqrtStep(n, x) == (x + n \div x) \div 2

RECURSIVE IsqrtFrom(_, _)
IsqrtFrom(n, x) ==
    IF IsqrtStep(n, x) >= x THEN x
    ELSE CHOOSE r \in {IsqrtFrom(n, y) : y \in {IsqrtStep(n, x)}} : TRUE

\* the integer square root of n >= 0
Isqrt(n) == IF n = 0 THEN 0 ELSE IsqrtFrom(n, n)

\* Math.hypot(dx, dy)
Hypot(dx, dy) == Isqrt(dx * dx + dy * dy)

getEffectiveRadius(cluster) ==
    IF cluster.wIn = 0 \/ cluster.hIn = 0 THEN DIA_IN \div 2
    ELSE Max(cluster.wIn, cluster.hIn) \div 2

areClustersColliding(cluster1, cluster2, minSeparationIn) ==
    Hypot(cluster1.cxIn - cluster2.cxIn, cluster1.cyIn - cluster2.cyIn)
        < getEffectiveRadius(cluster1) + getEffectiveRadius(cluster2)
            + minSeparationIn

\* centre, origin and every model moved by (moveX, moveY)
ShiftedWithModels(cluster, moveX, moveY) ==
    [cluster EXCEPT
        !.cxIn = @ + moveX, !.cyIn = @ + moveY,
        !.originXIn = @ + moveX, !.originYIn = @ + moveY,
        !.models = [j \in 1..Len(cluster.models) |->
                       [x |-> cluster.models[j].x + moveX,
                        y |-> cluster.models[j].y + moveY]]]

\* the one element of a singleton set
Only(S) == CHOOSE x \in S : TRUE

\* the cluster moved distanceToMoveIn along (dX, dY), a vector of length
\* totalDistToTarget
MovedAlong(unitCluster, dX, dY, totalDistToTarget, distanceToMoveIn) ==
    IF totalDistToTarget < 1 \/ distanceToMoveIn <= 0 THEN unitCluster
    ELSE ShiftedWithModels(unitCluster,
                           (dX * distanceToMoveIn) \div totalDistToTarget,
                           (dY * distanceToMoveIn) \div totalDistToTarget)

AnimatedTo(unitCluster, dX, dY, distanceToMoveIn) ==
    Only({MovedAlong(unitCluster, dX, dY, total, distanceToMoveIn) :
             total \in {Hypot(dX, dY)}})

\* the cluster at the end of the animation: distanceToMoveIn along the
\* direction from its centre to the target coordinates
animateUnitMovement(unitCluster, targetX, targetY, distanceToMoveIn) ==
    Only({AnimatedTo(unitCluster, dX, dY, dist) :
             dX \in {targetX - unitCluster.cxIn},
             dY \in {targetY - unitCluster.cyIn},
             dist \in {distanceToMoveIn}})

CentreDist(a, b) == Hypot(a.cxIn - b.cxIn, a.cyIn - b.cyIn)

\* Advance or Rush towards an objective marker
MovedToObjective(unitCluster, objective, moveDist) ==
    animateUnitMovement(unitCluster, objective.x, objective.y,
        Min(moveDist, Hypot(unitCluster.cxIn - objective.x,
                            unitCluster.cyIn - objective.y)))

\* ownRadius + enemyRadius + 1.0
RequiredGap(unitCluster, target) ==
    getEffectiveRadius(unitCluster) + getEffectiveRadius(target) + 100

\* the point requiredGap short of the enemy's centre
GapPoint(unitCluster, target) ==
    [x |-> target.cxIn - ((target.cxIn - unitCluster.cxIn)
                              * RequiredGap(unitCluster, target))
                           \div CentreDist(unitCluster, target),
     y |-> target.cyIn - ((target.cyIn - unitCluster.cyIn)
                              * RequiredGap(unitCluster, target))
                           \div CentreDist(unitCluster, target)]

\* the move of an Advance or a Rush to the point requiredGap short of the
\* enemy
MovedToGapPoint(unitCluster, point, moveDist) ==
    animateUnitMovement(unitCluster, point.x, point.y,
        Min(moveDist, Hypot(unitCluster.cxIn - point.x,
                            unitCluster.cyIn - point.y)))

\* Advance or Rush towards an enemy unit: stop requiredGap short of it
MovedToEnemy(unitCluster, target, moveDist) ==
    IF CentreDist(unitCluster, target) > RequiredGap(unitCluster, target)
    THEN Only({MovedToGapPoint(unitCluster, point, moveDist) :
                  point \in {GapPoint(unitCluster, target)}})
    ELSE unitCluster

\* Charge: towards the near edge of the target, up to base contact
MovedToCharge(unitCluster, target, chargeMoveDist) ==
    IF CentreDist(unitCluster, target) > 0
    THEN animateUnitMovement(unitCluster,
            target.cxIn - ((target.cxIn - unitCluster.cxIn)
                              * getEffectiveRadius(target))
                           \div CentreDist(unitCluster, target),
            target.cyIn - ((target.cyIn - unitCluster.cyIn)
                              * getEffectiveRadius(target))
                           \div CentreDist(unitCluster, target),
            Min(Max(0, CentreDist(unitCluster, target)
                         - getEffectiveRadius(unitCluster)
                         - getEffectiveRadius(target)),
                chargeMoveDist))
    ELSE unitCluster

\* the charged cluster after the push-back: 1 inch away from the charger
\* when the two footprints overlap
resolvePostChargeSeparation(chargerCluster, chargedTargetCluster) ==
    IF areClustersColliding(chargerCluster, chargedTargetCluster, -10)
    THEN [chargedTargetCluster EXCEPT
            !.cxIn = @ + ((chargedTargetCluster.cxIn - chargerCluster.cxIn) * 100)
                           \div Max(1, CentreDist(chargerCluster, chargedTargetCluster)),
            !.cyIn = @ + ((chargedTargetCluster.cyIn - chargerCluster.cyIn) * 100)
                           \div Max(1, CentreDist(chargerCluster, chargedTargetCluster)),
            !.originXIn = @ + ((chargedTargetCluster.cxIn - chargerCluster.cxIn) * 100)
                           \div Max(1, CentreDist(chargerCluster, chargedTargetCluster)),
            !.originYIn = @ + ((chargedTargetCluster.cyIn - chargerCluster.cyIn) * 100)
                           \div Max(1, CentreDist(chargerCluster, chargedTargetCluster))]
    ELSE chargedTargetCluster


(***************************************************************************)
(* Specification SpecBoard: the alternating game loop of Spec played with  *)
(* positions, one unit a side and one objective marker.  The unit, its     *)
(* action is the one aiDecideUnitAction returns.                           *)
(***************************************************************************)
InitBoard ==
    /\ \E y \in {3650, 4200} :
          clusters = <<Deployed(Brute, "attackers", 1, 3600, 1200),
                       Deployed(Squad, "defenders", 2, 3600, y)>>
    /\ clusterCache = [attackers |-> <<1>>, defenders |-> <<2>>]
    /\ objectives = <<Objective(3600, 2400, Null)>>
    /\ currentTurn = "attackers"
    /\ currentRound = 1
    /\ playerWhoFinishedLastRoundFirst = Null
    /\ playerWhoStartedCurrentRound = "attackers"
    /\ pc = "ready"
    /\ act = NoAct
    /\ last = NoLast
    /\ hist = NewRound(clusters, clusterCache)

\* one movement of a cluster: the cluster before it and after it
Move(before, after) == [before |-> before, after |-> after]

Outcome(w, moves) == [world |-> w, moves |-> moves]

\* where a decision can send the unit: an objective marker or an enemy unit
MoveTargets ==
    {ObjectiveTarget(i) : i \in 1..Len(objectives)}
        \cup {UnitTarget(id) : id \in Enemies}

\* onActionComplete after the action left one of `outcomes`
Performed(unit, action, outcomes) ==
    /\ \E o \in outcomes :
          /\ clusters' = [o.world.clusters EXCEPT ![unit].activated = TRUE]
          /\ clusterCache' = o.world.clusterCache
          /\ last' = [op |-> "perform", unit |-> unit, action |-> action,
                      moves |-> o.moves]
    /\ hist' = Observe(hist, clusters', clusterCache')
    /\ pc' = "finalize"
    /\ UNCHANGED <<objectives, currentTurn, currentRound, act,
                   playerWhoFinishedLastRoundFirst, playerWhoStartedCurrentRound>>

\* aiExecuteShootAction from where the clusters stand in w
ShotFrom(w, unit, target, actionContext) ==
    IF target = 0 THEN {w}
    ELSE {r.world : r \in aiExecuteShootAction(w, currentTurn, unit, target,
                              actionContext,
                              MinDist2(w.clusters[unit], w.clusters[target]))}

\* the unit after the movement of an Advance or a Rush
MovedTowards(unit, target, moveDist) ==
    IF target.kind = "objective"
    THEN MovedToObjective(clusters[unit], objectives[target.ref], moveDist)
    ELSE MovedToEnemy(clusters[unit], clusters[target.ref], moveDist)

WithCluster(id, cluster) == World([clusters EXCEPT ![id] = cluster], clusterCache)

\* what aiDecideUnitAction can return for the unit
Decisions(unit) ==
    {aiDecideUnitAction(unit, assess) : assess \in Assessments}

Chosen(unit, action) ==
    {d \in Decisions(unit) : ~d.threw /\ d.action = action}

\* the marker or enemy unit the decision's target stands for; a computed
\* position is taken to lie towards any of them
Aimed(d) ==
    IF d.target.kind \in {"objective", "unit"} THEN {d.target} ELSE MoveTargets

\* aiDecideUnitAction throws: the activation ends without onActionComplete
\* and without finalizeAITurn
ActivateThrows ==
    /\ pc = "ready" /\ currentRound <= MaxRound
    /\ \E unit \in Candidates(FALSE) : \E d \in Decisions(unit) :
          /\ d.threw
          /\ last' = [op |-> "threw", unit |-> unit, line |-> d.line]
    /\ pc' = "failed"
    /\ UNCHANGED <<clusters, clusterCache, objectives, currentTurn,
                   currentRound, playerWhoFinishedLastRoundFirst,
                   playerWhoStartedCurrentRound, act, hist>>

PerformHold ==
    /\ pc = "ready" /\ currentRound <= MaxRound
    /\ \E unit \in Candidates(FALSE) : \E d \in Chosen(unit, "Hold") :
          Performed(unit, "Hold",
              {Outcome(w, {}) :
                  w \in ShotFrom(Here, unit, d.shootTarget.ref, HoldString)})

\* shootTarget || (target.models ? target : null)
FinalShootTarget(target, shootTarget) ==
    IF shootTarget # 0 THEN shootTarget
    ELSE IF target.kind = "unit" THEN target.ref ELSE 0

AdvanceOutcomes(unit, moved, finalShootTarget) ==
    {Outcome(w, {Move(clusters[unit], moved)}) :
        w \in ShotFrom(WithCluster(unit, moved), unit, finalShootTarget, NoContext)}

PerformAdvance ==
    /\ pc = "ready" /\ currentRound <= MaxRound
    /\ \E unit \in Candidates(FALSE) : \E d \in Chosen(unit, "Advance") :
          \E target \in Aimed(d) :
          \E moved \in {MovedTowards(unit, target,
                            getUnitMoveValue(clusters[unit], "advance"))} :
             Performed(unit, "Advance",
                 AdvanceOutcomes(unit, moved,
                                 FinalShootTarget(target, d.shootTarget.ref)))

RushOutcomes(unit, moved) ==
    {Outcome(WithCluster(unit, moved), {Move(clusters[unit], moved)})}

PerformRush ==
    /\ pc = "ready" /\ currentRound <= MaxRound
    /\ \E unit \in Candidates(FALSE) : \E d \in Chosen(unit, "Rush") :
          \E target \in Aimed(d) :
          \E moved \in {MovedTowards(unit, target,
                            getUnitMoveValue(clusters[unit], "rush"))} :
             Performed(unit, "Rush", RushOutcomes(unit, moved))

\* the world after onActionComplete has pushed the charged unit back
Separated(w, unit, target) ==
    World([w.clusters EXCEPT ![target] =
              resolvePostChargeSeparation(w.clusters[unit], w.clusters[target])],
          w.clusterCache)

\* the outcome of a charge whose melee left the world w
Charged(w, unit, target, moved, separated) ==
    Outcome(separated, {Move(clusters[unit], moved),
                        Move(w.clusters[target], separated.clusters[target])})

ChargeOutcomes(unit, target, moved) ==
    {Charged(r[1], unit, target, moved, r[2]) :
        r \in {<<m.world, Separated(m.world, unit, target)>> :
                 m \in aiExecuteMeleeAction(WithCluster(unit, moved),
                                            currentTurn, unit, target, "Charge")}}

PerformCharge ==
    /\ pc = "ready" /\ currentRound <= MaxRound
    /\ \E unit \in Candidates(FALSE) : \E d \in Chosen(unit, "Charge") :
          /\ d.target.kind = "unit"
          /\ \E moved \in {MovedToCharge(clusters[unit], clusters[d.target.ref],
                                  getUnitMoveValue(clusters[unit], "charge"))} :
                Performed(unit, "Charge",
                          ChargeOutcomes(unit, d.target.ref, moved))

NextBoard ==
    \/ ActivateNone
    \/ ActivateIdle
    \/ ActivateThrows
    \/ PerformHold
    \/ PerformAdvance
    \/ PerformRush
    \/ PerformCharge
    \/ finalizeAITurn

SpecBoard == InitBoard /\ [][NextBoard]_vars

\* the offsets of the footprint origin and of every model from the centre
Offsets(cluster) ==
    [origin |-> <<cluster.originXIn - cluster.cxIn,
                  cluster.originYIn - cluster.cyIn>>,
     models |-> [j \in 1..Len(cluster.models) |->
                    <<cluster.models[j].x - cluster.cxIn,
                      cluster.models[j].y - cluster.cyIn>>]]

\* C12: every movement of an activation (the move of an Advance, a Rush or a
\* Charge, and the push-back of the charged unit) leaves the offsets between
\* the cluster's centre, its footprint origin and its model positions as
\* they were before the movement
C12_MovementKeepsOffsets ==
    last.op = "perform" =>
        \A m \in last.moves : Offsets(m.after) = Offsets(m.before)


\* one step of the loop body of playFullRoundAlternating: the activation of
\* a unit, or the finalizeAITurn that follows it
LoopStep ==
    /\ pc \in {"ready", "finalize"}
    /\ pc = "ready" => currentRound <= MaxRound
    /\ pc' \in {"ready", "finalize", "failed"} \ {pc}

\* playFullRoundAlternating keeps calling activateSingleUnitForCurrentSide
\* and finalizeAITurn while the round lasts and nothing has thrown
SpecBoardLoop == SpecBoard /\ WF_pc(LoopStep)

\* C15: playFullRound always ends with currentRound advanced: whatever the
\* round is, a later round is reached
C15_RoundAlwaysAdvances ==
    \A r \in 1..MaxRound : (currentRound = r) ~> (currentRound > r)


\* the game loop when playFullRoundAlternating keeps calling
\* activateSingleUnitForCurrentSide and finalizeAITurn
SpecRounds == Spec /\ WF_pc(LoopStep)

RosterIds == 1..3

\* the cluster has just been activated with Idle and is no longer shaken
IdledAndRecovered(id) ==
    /\ last.op = "activate" /\ last.unit = id /\ last.action = "Idle"
    /\ clusters[id].activated /\ ~clusters[id].shaken

\* C40: while rounds are played (up to MaxRound of them), every listed
\* cluster that is shaken is eventually removed from its roster or activated
\* with Idle and no longer shaken; when a round ends no listed cluster is
\* shaken and unactivated; and a shaken cluster is activated only when its
\* side has no unactivated non-shaken cluster left.
C40_ShakenClustersIdle ==
    /\ \A id \in RosterIds :
          (id \in Listed /\ clusters[id].shaken)
             ~> (id \notin Listed \/ IdledAndRecovered(id)
                   \/ currentRound > MaxRound)
    /\ [][RoundBoundary =>
            \A id \in Listed : ~(clusters[id].shaken /\ ~clusters[id].activated)]_vars
    /\ [][(last'.op = "activate" /\ last'.unit # 0 /\ clusters[last'.unit].shaken) =>
            \A id \in SeqToSet(getAISideCache) :
                clusters[id].activated \/ clusters[id].shaken]_vars

\* in round 2 a cluster has idled and recovered after a non-shaken cluster
\* of its side was activated
C40_Witness ==
    /\ currentRound = 2
    /\ \E id \in RosterIds :
          /\ IdledAndRecovered(id)
          /\ \E other \in SeqToSet(getAISideCache) \ {id} :
                clusters[other].activated /\ ~clusters[other].shaken


(***************************************************************************)
(* Army list parser (parser.js, and splitTopLevel of ui.js).  Text is a    *)
(* string; the regular expressions of the source are matched by the        *)
(* operators below, character by character.                                *)
(***************************************************************************)
CharAt(str, i) == SubSeq(str, i, i)

Digits == "0123456789"
UpperCase == "ABCDEFGHIJKLMNOPQRSTUVWXYZ"
LowerCase == "abcdefghijklmnopqrstuvwxyz"

\* the position of the character in the alphabet, 0 when it is not in it
IndexIn(alphabet, ch) ==
    IF \E i \in 1..Len(alphabet) : CharAt(alphabet, i) = ch
    THEN CHOOSE i \in 1..Len(alphabet) : CharAt(alphabet, i) = ch
    ELSE 0

IsDigit(ch) == IndexIn(Digits, ch) # 0
IsLetter(ch) == IndexIn(UpperCase, ch) # 0 \/ IndexIn(LowerCase, ch) # 0
\* \w
IsWordChar(ch) == IsLetter(ch) \/ IsDigit(ch) \/ ch = "_"
\* \s
IsSpace(ch) == ch = " "

LowerChar(ch) ==
    IF IndexIn(UpperCase, ch) # 0 THEN CharAt(LowerCase, IndexIn(UpperCase, ch))
    ELSE ch

RECURSIVE toLowerCase(_)
toLowerCase(str) ==
    IF str = "" THEN ""
    ELSE LowerChar(CharAt(str, 1)) \o toLowerCase(SubSeq(str, 2, Len(str)))

\* the first position at or after i that does not hold a space
RECURSIVE SkipSpaces(_, _)
SkipSpaces(str, i) ==
    IF i <= Len(str) /\ IsSpace(CharAt(str, i)) THEN SkipSpaces(str, i + 1)
    ELSE i

\* the first position at or after i that does not hold a digit
RECURSIVE SkipDigits(_, _)
SkipDigits(str, i) ==
    IF i <= Len(str) /\ IsDigit(CharAt(str, i)) THEN SkipDigits(str, i + 1)
    ELSE i

\* the last position at or before i that does not hold a space
RECURSIVE SkipSpacesBack(_, _)
SkipSpacesBack(str, i) ==
    IF i >= 1 /\ IsSpace(CharAt(str, i)) THEN SkipSpacesBack(str, i - 1)
    ELSE i

\* String.prototype.trim
Trim(str) == SubSeq(str, SkipSpaces(str, 1), SkipSpacesBack(str, Len(str)))

\* parseInt(digits, 10) and unary plus, for a string of decimal digits
RECURSIVE ParseDigits(_)
ParseDigits(str) ==
    IF str = "" THEN 0
    ELSE 10 * ParseDigits(SubSeq(str, 1, Len(str) - 1))
         + (IndexIn(Digits, CharAt(str, Len(str))) - 1)

\* does the literal stand at position i, letter case ignored
LiteralAt(str, i, literal) ==
    /\ i + Len(literal) - 1 <= Len(str)
    /\ toLowerCase(SubSeq(str, i, i + Len(literal) - 1)) = toLowerCase(literal)

\* splitTopLevel: the state of the scan is the parenthesis level, the
\* buffer and the pieces pushed so far
RECURSIVE SplitFrom(_, _, _, _, _, _)
SplitFrom(str, sep, i, level, buf, out) ==
    IF i > Len(str) THEN (IF buf # "" THEN Append(out, buf) ELSE out)
    ELSE IF CharAt(str, i) = sep
            /\ (IF CharAt(str, i) = "(" THEN level + 1
                ELSE IF CharAt(str, i) = ")" THEN Max(0, level - 1)
                ELSE level) = 0
    THEN SplitFrom(str, sep, i + 1, 0, "", Append(out, buf))
    ELSE SplitFrom(str, sep, i + 1,
                   IF CharAt(str, i) = "(" THEN level + 1
                   ELSE IF CharAt(str, i) = ")" THEN Max(0, level - 1)
                   ELSE level,
                   buf \o CharAt(str, i), out)

\* a split at every separator, inside parentheses or not
RECURSIVE SplitFlatFrom(_, _, _, _, _)
SplitFlatFrom(str, sep, i, buf, out) ==
    IF i > Len(str) THEN (IF buf # "" THEN Append(out, buf) ELSE out)
    ELSE IF CharAt(str, i) = sep
    THEN SplitFlatFrom(str, sep, i + 1, "", Append(out, buf))
    ELSE SplitFlatFrom(str, sep, i + 1, buf \o CharAt(str, i), out)

SplitEverywhere(str, sep) == SplitFlatFrom(str, sep, 1, "", <<>>)

splitTopLevel(str, sep) == SplitFrom(str, sep, 1, 0, "", <<>>)

\* the items of a list, each trimmed
Trimmed(items) == [i \in 1..Len(items) |-> Trim(items[i])]

\* a value of a special-rule map: true, false or a number
Flag(b) == [numeric |-> FALSE, flag |-> b, value |-> 0]
Num(n) == [numeric |-> TRUE, flag |-> TRUE, value |-> n]

NoSpecials == [key \in {} |-> Flag(TRUE)]

\* special[key] = value
Put(special, key, value) ==
    [k \in DOMAIN special \cup {key} |-> IF k = key THEN value ELSE special[k]]

\* special[key] is truthy
Truthy(special, key) ==
    /\ key \in DOMAIN special
    /\ special[key].flag
    /\ special[key].numeric => special[key].value # 0

SPECIAL_RULE_DEFINITIONS ==
    <<[name |-> "Hero", key |-> "hero", type |-> "boolean"],
      [name |-> "Relentless", key |-> "relentless", type |-> "boolean"],
      [name |-> "Medical Training", key |-> "medicalTraining", type |-> "boolean"],
      [name |-> "Shield Wall", key |-> "shieldWall", type |-> "boolean"],
      [name |-> "Combat Shield", key |-> "shieldWall", type |-> "boolean"],
      [name |-> "Good Shot", key |-> "goodShot", type |-> "boolean"],
      [name |-> "Fast", key |-> "fast", type |-> "boolean"],
      [name |-> "Robot", key |-> "robot", type |-> "boolean"],
      [name |-> "Scout", key |-> "scout", type |-> "boolean"],
      [name |-> "Strider", key |-> "strider", type |-> "boolean"],
      [name |-> "Fearless", key |-> "fearless", type |-> "boolean"],
      [name |-> "Self-Repair", key |-> "selfRepair", type |-> "boolean"],
      [name |-> "Ambush", key |-> "ambush", type |-> "boolean"],
      [name |-> "Company Standard", key |-> "companyStandard", type |-> "boolean"],
      [name |-> "Take Aim", key |-> "takeAim", type |-> "boolean"],
      [name |-> "Hold the Line", key |-> "holdTheLine", type |-> "boolean"],
      [name |-> "Stealth", key |-> "stealth", type |-> "boolean"],
      [name |-> "Flying", key |-> "flying", type |-> "boolean"],
      [name |-> "Precision Shots", key |-> "precisionShots", type |-> "boolean"],
      [name |-> "Tough", key |-> "tough", type |-> "numeric"],
      [name |-> "Deadly", key |-> "deadly", type |-> "numeric"],
      [name |-> "Fear", key |-> "fear", type |-> "numeric"],
      [name |-> "Impact", key |-> "impact", type |-> "numeric"],
      [name |-> "Caster", key |-> "caster", type |-> "numeric"],
      [name |-> "Transport", key |-> "transport", type |-> "numeric"],
      [name |-> "Furious", key |-> "furious", type |-> "custom"],
      [name |-> "Battle Drills", key |-> "battleDrills", type |-> "custom"]>>

\* where the digits of an argument start: after "(" and an optional "+"
ArgumentStart(ruleString, ruleName) ==
    IF CharAt(ruleString, Len(ruleName) + 2) = "+"
    THEN Len(ruleName) + 3 ELSE Len(ruleName) + 2

\* the match of ^name(?:\([+]?(\d+)\))?$ (flag i): -2 when the string does
\* not match, -1 when it matches without an argument, else the argument
RuleArgument(ruleString, ruleName) ==
    IF ~LiteralAt(ruleString, 1, ruleName) THEN -2
    ELSE IF Len(ruleString) = Len(ruleName) THEN -1
    ELSE IF /\ CharAt(ruleString, Len(ruleName) + 1) = "("
            /\ CharAt(ruleString, Len(ruleString)) = ")"
            /\ ArgumentStart(ruleString, ruleName) < Len(ruleString)
            /\ SkipDigits(ruleString, ArgumentStart(ruleString, ruleName))
                 = Len(ruleString)
    THEN ParseDigits(SubSeq(ruleString, ArgumentStart(ruleString, ruleName),
                            Len(ruleString) - 1))
    ELSE -2

\* the handlers of Furious and Battle Drills
CustomRule(def, special) ==
    IF def.name = "Furious"
    THEN Put(Put(special, "furious", Flag(TRUE)), "furiousOriginal", Flag(TRUE))
    ELSE IF Truthy(special, "furious")
    THEN Put(special, "battleDrills", Flag(TRUE))
    ELSE Put(Put(Put(special, "battleDrills", Flag(TRUE)),
                 "furious", Flag(TRUE)), "furiousOriginal", Flag(FALSE))

\* the special map after the definition matched with the argument
RuleApplied(def, argument, special) ==
    IF def.type = "boolean" THEN Put(special, def.key, Flag(TRUE))
    ELSE IF def.type = "numeric"
    THEN Put(special, def.key, IF argument >= 0 THEN Num(argument) ELSE Flag(TRUE))
    ELSE CustomRule(def, special)

\* the definitions whose pattern matches the string, in table order
MatchingRules(ruleString) ==
    SelectSeq(SPECIAL_RULE_DEFINITIONS,
              LAMBDA def : RuleArgument(ruleString, def.name) >= -1)

ParsedRule(matched, special) == [matched |-> matched, special |-> special]

parseRule(ruleString, special) ==
    IF MatchingRules(ruleString) = <<>> THEN ParsedRule(FALSE, special)
    ELSE ParsedRule(TRUE,
            RuleApplied(MatchingRules(ruleString)[1],
                        RuleArgument(ruleString, MatchingRules(ruleString)[1].name),
                        special))

\* the last position that holds the character, 0 when there is none
LastIndexOf(str, ch) ==
    IF \E i \in 1..Len(str) : CharAt(str, i) = ch
    THEN CHOOSE i \in 1..Len(str) :
            CharAt(str, i) = ch /\ \A j \in (i + 1)..Len(str) : CharAt(str, j) # ch
    ELSE 0

\* the first position at or after from that holds the character, 0 when none
FirstIndexOf(str, ch, from) ==
    IF \E i \in from..Len(str) : CharAt(str, i) = ch
    THEN CHOOSE i \in from..Len(str) :
            CharAt(str, i) = ch /\ \A j \in from..(i - 1) : CharAt(str, j) # ch
    ELSE 0

Includes(str, ch) == LastIndexOf(str, ch) # 0

\* where the group of /.*\((.+)\)/ starts: after the last "(" that leaves at
\* least one character before the last ")"; 0 when the string does not match
EmbeddedOpen(item) ==
    IF \E i \in 1..Len(item) : CharAt(item, i) = "(" /\ i + 1 < LastIndexOf(item, ")")
    THEN CHOOSE i \in 1..Len(item) :
            /\ CharAt(item, i) = "(" /\ i + 1 < LastIndexOf(item, ")")
            /\ \A j \in (i + 1)..Len(item) :
                    ~(CharAt(item, j) = "(" /\ j + 1 < LastIndexOf(item, ")"))
    ELSE 0

EmbeddedRule(item) ==
    Trim(SubSeq(item, EmbeddedOpen(item) + 1, LastIndexOf(item, ")") - 1))

Parsed(special, keywords) == [special |-> special, keywords |-> keywords]

\* one pass of the forEach of parseSpecialsAndKeywords
SpecialItem(item, acc) ==
    IF parseRule(item, acc.special).matched
    THEN Parsed(parseRule(item, acc.special).special, acc.keywords)
    ELSE IF EmbeddedOpen(item) # 0
            /\ parseRule(EmbeddedRule(item), acc.special).matched
    THEN Parsed(parseRule(EmbeddedRule(item), acc.special).special, acc.keywords)
    ELSE IF ~Includes(item, "(") /\ ~Includes(item, ")")
    THEN Parsed(acc.special, Append(acc.keywords, item))
    ELSE acc

RECURSIVE SpecialItems(_, _, _)
SpecialItems(specItems, i, acc) ==
    IF i > Len(specItems) THEN acc
    ELSE SpecialItems(specItems, i + 1, SpecialItem(Trim(specItems[i]), acc))

parseSpecialsAndKeywords(specItems) ==
    SpecialItems(specItems, 1, Parsed(NoSpecials, <<>>))

\* /\w+\s*\(.*\)/: a word character, spaces, "(" and a later ")"
LooksLikeWeapon(spec) ==
    \E i \in 1..Len(spec) :
        /\ CharAt(spec, i) = "("
        /\ LastIndexOf(spec, ")") > i
        /\ SkipSpacesBack(spec, i - 1) >= 1
        /\ IsWordChar(CharAt(spec, SkipSpacesBack(spec, i - 1)))

\* the end of the prefix (\d+)x of a weapon: the position of the "x", 0 when
\* the string does not start with one
AmountEnd(spec) ==
    IF SkipDigits(spec, 1) > 1 /\ CharAt(spec, SkipDigits(spec, 1)) = "x"
    THEN SkipDigits(spec, 1) ELSE 0

\* where ([^(]+?) starts when the prefix is taken: after the spaces that
\* follow the "x", or at the last of them when "(" comes next; 0 when the
\* name cannot start
NameStartAfterAmount(spec) ==
    IF AmountEnd(spec) = 0 THEN 0
    ELSE IF SkipSpaces(spec, AmountEnd(spec) + 1) > Len(spec) THEN 0
    ELSE IF CharAt(spec, SkipSpaces(spec, AmountEnd(spec) + 1)) # "("
    THEN SkipSpaces(spec, AmountEnd(spec) + 1)
    ELSE IF SkipSpaces(spec, AmountEnd(spec) + 1) > AmountEnd(spec) + 1
    THEN SkipSpaces(spec, AmountEnd(spec) + 1) - 1
    ELSE 0

\* ([^(]+?)\s*\((.+)\)$ from the start position: the name runs to the first
\* "(", the rest to the final ")"
NameAndInnerFrom(spec, start) ==
    /\ start >= 1 /\ start <= Len(spec)
    /\ CharAt(spec, start) # "("
    /\ FirstIndexOf(spec, "(", start) # 0
    /\ CharAt(spec, Len(spec)) = ")"
    /\ FirstIndexOf(spec, "(", start) + 1 < Len(spec)

\* where the name of the weapon starts in the match of
\* ^(?:(\d+)x\s*)?([^(]+?)\s*\((.+)\)$, 0 when there is no match
NameStart(spec) ==
    IF NameStartAfterAmount(spec) # 0 /\ NameAndInnerFrom(spec, NameStartAfterAmount(spec))
    THEN NameStartAfterAmount(spec)
    ELSE IF NameAndInnerFrom(spec, 1) THEN 1
    ELSE 0

\* was the prefix part of the match
AmountTaken(spec) == NameStart(spec) > 1

\* ^(\d+)"$
IsRangePart(p) ==
    Len(p) >= 2 /\ CharAt(p, Len(p)) = "\"" /\ SkipDigits(p, 1) = Len(p)

\* ^[Aa]?(\d+)$, where the digits start
AttacksStart(p) == IF toLowerCase(CharAt(p, 1)) = "a" THEN 2 ELSE 1

IsAttacksPart(p) ==
    AttacksStart(p) <= Len(p) /\ SkipDigits(p, AttacksStart(p)) = Len(p) + 1

\* ^AP\((-?\d+)\)$ (flag i), where the digits start
ApStart(p) == IF CharAt(p, 4) = "-" THEN 5 ELSE 4

IsApPart(p) ==
    /\ LiteralAt(p, 1, "AP(")
    /\ CharAt(p, Len(p)) = ")"
    /\ ApStart(p) < Len(p)
    /\ SkipDigits(p, ApStart(p)) = Len(p)

ApOf(p) ==
    IF ApStart(p) = 5 THEN 0 - ParseDigits(SubSeq(p, 5, Len(p) - 1))
    ELSE ParseDigits(SubSeq(p, 4, Len(p) - 1))

\* [a-zA-Z\s-]
IsRuleNameChar(ch) == IsLetter(ch) \/ IsSpace(ch) \/ ch = "-"

\* the first position at or after i that does not hold a rule name character
RECURSIVE SkipRuleName(_, _)
SkipRuleName(str, i) ==
    IF i <= Len(str) /\ IsRuleNameChar(CharAt(str, i)) THEN SkipRuleName(str, i + 1)
    ELSE i

\* ^([a-zA-Z\s-]+)(?:\((\d+)\))?$
IsFlagPart(p) ==
    /\ SkipRuleName(p, 1) > 1
    /\ \/ SkipRuleName(p, 1) = Len(p) + 1
       \/ /\ CharAt(p, SkipRuleName(p, 1)) = "("
          /\ CharAt(p, Len(p)) = ")"
          /\ SkipRuleName(p, 1) + 1 < Len(p)
          /\ SkipDigits(p, SkipRuleName(p, 1) + 1) = Len(p)

FlagName(p) == toLowerCase(Trim(SubSeq(p, 1, SkipRuleName(p, 1) - 1)))

FlagValue(p) ==
    IF SkipRuleName(p, 1) = Len(p) + 1 THEN Flag(TRUE)
    ELSE Num(ParseDigits(SubSeq(p, SkipRuleName(p, 1) + 1, Len(p) - 1)))

WeaponEntry(amount, name, range, attacks, ap, special) ==
    [amount |-> amount, name |-> name, range |-> range, attacks |-> attacks,
     ap |-> ap, special |-> special]

\* one pass of parts.forEach
WeaponPart(p, w) ==
    IF IsRangePart(p)
    THEN [w EXCEPT !.range = ParseDigits(SubSeq(p, 1, Len(p) - 1))]
    ELSE IF IsAttacksPart(p)
    THEN [w EXCEPT !.attacks = ParseDigits(SubSeq(p, AttacksStart(p), Len(p)))]
    ELSE IF IsApPart(p) THEN [w EXCEPT !.ap = ApOf(p)]
    ELSE IF IsFlagPart(p)
    THEN [w EXCEPT !.special = Put(w.special, FlagName(p), FlagValue(p))]
    ELSE w

RECURSIVE WeaponParts(_, _, _)
WeaponParts(parts, i, w) ==
    IF i > Len(parts) THEN w
    ELSE WeaponParts(parts, i + 1, WeaponPart(parts[i], w))

\* the weapon of a specification that matches the pattern
ParsedWeapon(spec) ==
    WeaponParts(
        Trimmed(splitTopLevel(
            SubSeq(spec, FirstIndexOf(spec, "(", NameStart(spec)) + 1, Len(spec) - 1),
            ",")),
        1,
        WeaponEntry(IF AmountTaken(spec)
                    THEN ParseDigits(SubSeq(spec, 1, AmountEnd(spec) - 1)) ELSE 1,
                    Trim(SubSeq(spec, NameStart(spec),
                           FirstIndexOf(spec, "(", NameStart(spec)) - 1)),
                    0, 1, 0, NoSpecials))

RECURSIVE WeaponsOf(_, _)
WeaponsOf(specs, i) ==
    IF i > Len(specs) THEN <<>>
    ELSE IF LooksLikeWeapon(specs[i]) /\ NameStart(specs[i]) # 0
    THEN <<ParsedWeapon(specs[i])>> \o WeaponsOf(specs, i + 1)
    ELSE WeaponsOf(specs, i + 1)

parseWeapons(equipLine) ==
    IF Trim(equipLine) = "" THEN <<>>
    ELSE WeaponsOf(Trimmed(splitTopLevel(equipLine, ",")), 1)

\* the header pattern after the name, token by token: "\\s*" is a run of
\* spaces, "\\d+" a captured run of digits, any other token a literal
UnitRegexTokens ==
    <<"\\s*", "[", "\\d+", "]", "\\s*", "Q", "\\d+", "+", "\\s*", "D", "\\d+",
      "+", "\\s*", "|", "\\s*", "\\d+", "pts", "\\s*">>

NoMatch == [ok |-> FALSE, at |-> 0, caps |-> <<>>]

\* the tokens from the k-th on matched at position i (flag i: literals
\* ignore the letter case); caps are the captured digits so far
RECURSIVE MatchTokens(_, _, _, _, _)
MatchTokens(str, i, tokens, k, caps) ==
    IF k > Len(tokens) THEN [ok |-> TRUE, at |-> i, caps |-> caps]
    ELSE IF tokens[k] = "\\s*"
    THEN Only({MatchTokens(str, j, tokens, k + 1, caps) : j \in {SkipSpaces(str, i)}})
    ELSE IF tokens[k] = "\\d+"
    THEN Only({IF j = i THEN NoMatch
               ELSE MatchTokens(str, j, tokens, k + 1,
                                Append(caps, ParseDigits(SubSeq(str, i, j - 1)))) :
               j \in {SkipDigits(str, i)}})
    ELSE IF LiteralAt(str, i, tokens[k])
    THEN MatchTokens(str, i + Len(tokens[k]), tokens, k + 1, caps)
    ELSE NoMatch

\* the header matched with a name of nameLen characters: the tokens, then
\* either the end of the line or "|", spaces and the special text
HeaderMatch(headerLine, nameLen) ==
    Only({IF ~m.ok THEN [ok |-> FALSE, caps |-> <<>>, specText |-> ""]
          ELSE IF m.at > Len(headerLine)
          THEN [ok |-> TRUE, caps |-> m.caps, specText |-> ""]
          ELSE IF CharAt(headerLine, m.at) = "|"
          THEN [ok |-> TRUE, caps |-> m.caps,
                specText |-> SubSeq(headerLine, SkipSpaces(headerLine, m.at + 1),
                                    Len(headerLine))]
          ELSE [ok |-> FALSE, caps |-> <<>>, specText |-> ""] :
          m \in {MatchTokens(headerLine, nameLen + 1, UnitRegexTokens, 1, <<>>)}})

\* (.+?) is lazy: the shortest name, of n characters or more, after which
\* the rest matches; 0 if none
RECURSIVE NameLengthFrom(_, _)
NameLengthFrom(headerLine, n) ==
    IF n > Len(headerLine) THEN 0
    ELSE IF HeaderMatch(headerLine, n).ok THEN n
    ELSE NameLengthFrom(headerLine, n + 1)

NameLength(headerLine) == NameLengthFrom(headerLine, 1)

SubUnitDefinition(name, caps, parsed, weapons) ==
    [name |-> name, models |-> caps[1], quality |-> caps[2],
     defense |-> caps[3], points |-> caps[4], special |-> parsed.special,
     weapons |-> weapons, keywords |-> parsed.keywords]

\* the sub-unit of a header that matches with a name of nameLen characters
ParsedUnit(headerLine, equipLine, nameLen) ==
    Only({SubUnitDefinition(
              Trim(SubSeq(headerLine, 1, nameLen)),
              m.caps,
              parseSpecialsAndKeywords(
                  IF m.specText # ""
                  THEN Trimmed(splitTopLevel(m.specText, ","))
                  ELSE <<>>),
              parseWeapons(equipLine)) :
          m \in {HeaderMatch(headerLine, nameLen)}})

\* parseUnit; Null when the header does not match
parseUnit(headerLine, equipLine) ==
    Only({IF nameLen = 0 THEN Null
          ELSE ParsedUnit(headerLine, equipLine, nameLen) :
          nameLen \in {NameLength(headerLine)}})

(***************************************************************************)
(* SpecParser: parseUnit applied to the header and equipment lines written *)
(* out from the fields of a unit.                                          *)
(***************************************************************************)
MaxSpecials == 2
MaxWeapons == 2

\* the decimal digits of a natural number
RECURSIVE FormatNat(_)
FormatNat(n) ==
    IF n < 10 THEN CharAt(Digits, n + 1)
    ELSE FormatNat(n \div 10) \o CharAt(Digits, (n % 10) + 1)

RECURSIVE Join(_, _)
Join(items, sep) ==
    IF items = <<>> THEN ""
    ELSE IF Len(items) = 1 THEN items[1]
    ELSE items[1] \o sep \o Join(Tail(items), sep)

\* a special rule as written in a list: its name, and its argument (-1 for
\* none) with or without a plus sign
RuleText(rule) ==
    IF rule.argument < 0 THEN rule.name
    ELSE rule.name \o "(" \o (IF rule.plus THEN "+" ELSE "")
         \o FormatNat(rule.argument) \o ")"

\* a weapon as written in a list: [Nx ]Name(R", An, AP(n))
WeaponText(w) ==
    (IF w.amount > 1 THEN FormatNat(w.amount) \o "x " ELSE "") \o w.name \o "("
    \o Join((IF w.range > 0 THEN <<FormatNat(w.range) \o "\"">> ELSE <<>>)
            \o <<"A" \o FormatNat(w.attacks)>>
            \o (IF w.ap # 0 THEN <<"AP(" \o FormatNat(w.ap) \o ")">> ELSE <<>>),
            ", ")
    \o ")"

\* Name [N] Qq+ Dd+ | Ppts | specials
HeaderText(unit) ==
    unit.name \o " [" \o FormatNat(unit.models) \o "] Q" \o FormatNat(unit.quality)
    \o "+ D" \o FormatNat(unit.defense) \o "+ | " \o FormatNat(unit.points)
    \o "pts | " \o Join([i \in 1..Len(unit.specials) |-> RuleText(unit.specials[i])], ", ")

EquipmentText(unit) ==
    Join([i \in 1..Len(unit.weapons) |-> WeaponText(unit.weapons[i])], ", ")

WrittenRule(name, argument, plus) ==
    [name |-> name, argument |-> argument, plus |-> plus]

\* rules of the dictionary: boolean ones plain, numeric ones with and
\* without an argument
WrittenRules ==
    {WrittenRule("Fast", -1, FALSE), WrittenRule("Tough", 3, FALSE),
     WrittenRule("Fear", 2, TRUE),
     WrittenRule("Caster", -1, FALSE)}

WrittenWeapons ==
    {WeaponEntry(2, "Rifle", 24, 2, 1, NoSpecials),
     WeaponEntry(1, "Heavy Axe", 0, 3, 0, NoSpecials),
     WeaponEntry(10, "Pistol", 12, 1, 0, NoSpecials)}

\* the lists of at most max different members of the set
ListsOf(S, max) ==
    {list \in UNION {[1..n -> S] : n \in 0..max} :
        \A i, j \in DOMAIN list : i # j => list[i] # list[j]}

WrittenUnits ==
    [name : {"Orc Boyz", "Elite Guard"}, models : {1, 10}, quality : {4},
     defense : {5}, points : {90},
     specials : ListsOf(WrittenRules, MaxSpecials),
     weapons : ListsOf(WrittenWeapons, MaxWeapons)]

InitParser ==
    /\ clusters = <<>>
    /\ clusterCache = [s \in Sides |-> <<>>]
    /\ objectives = <<>>
    /\ currentTurn = "attackers"
    /\ currentRound = 1
    /\ playerWhoFinishedLastRoundFirst = Null
    /\ playerWhoStartedCurrentRound = "attackers"
    /\ pc = "parse"
    /\ \E unit \in WrittenUnits :
          act = [unit |-> unit, headerLine |-> HeaderText(unit),
                 equipLine |-> EquipmentText(unit)]
    /\ last = NoLast
    /\ hist = NoHist

ParseUnit ==
    /\ pc = "parse"
    /\ pc' = "parsed"
    /\ last' = [op |-> "parseUnit",
                matched |-> NameLength(act.headerLine) # 0,
                result |-> parseUnit(act.headerLine, act.equipLine)]
    /\ UNCHANGED <<clusters, clusterCache, objectives, currentTurn, currentRound,
                   playerWhoFinishedLastRoundFirst, playerWhoStartedCurrentRound,
                   act, hist>>

NextParser == ParseUnit

SpecParser == InitParser /\ [][NextParser]_vars

\* the definition of a written rule in the dictionary
DefinitionOf(rule) ==
    SPECIAL_RULE_DEFINITIONS[
        CHOOSE i \in DOMAIN SPECIAL_RULE_DEFINITIONS :
            SPECIAL_RULE_DEFINITIONS[i].name = rule.name]

\* the flags the written rules stand for
RECURSIVE FlagsOf(_, _, _)
FlagsOf(rules, i, special) ==
    IF i > Len(rules) THEN special
    ELSE FlagsOf(rules, i + 1,
            Put(special, DefinitionOf(rules[i]).key,
                IF rules[i].argument >= 0 THEN Num(rules[i].argument)
                ELSE Flag(TRUE)))

ZONE_W_IN == 7200
ZONE_H_IN == 4800
MARGIN_Y == 1200

\* rows findValidPlacementInSection tries (20 in the source)
MaxYAttempts == 2

\* Math.random() of the x attempts, in hundredths of the section width
RandomX == {2, 50}

\* a sub-unit of the parser carries its points; a scout has the flag set
ListedSubUnit(su, points, scout) ==
    [su EXCEPT !.special = @ @@ [scout |-> scout]] @@ [points |-> points]

ArmyEntry(group, points, scout) ==
    UnitGroup(group.name,
              [i \in 1..Len(group.subUnits) |->
                  ListedSubUnit(group.subUnits[i], points, scout)])

Pathfinder ==
    UnitGroup("Pathfinder", <<SubUnit("Pathfinder", 1, 4, 4, <<Rifle(1)>>, Special({}, 0, 0))>>)

\* Object.values(currentAttackerUnits), Object.values(currentDefenderUnits)
AttackerArmies ==
    {<<ArmyEntry(Gunners, 100, FALSE), ArmyEntry(Brute, 60, FALSE)>>,
     <<ArmyEntry(Brute, 60, FALSE), ArmyEntry(Pathfinder, 30, TRUE)>>}

DefenderArmies ==
    {<<ArmyEntry(Squad, 80, FALSE)>>,
     <<ArmyEntry(Pathfinder, 30, TRUE), ArmyEntry(Squad, 80, FALSE)>>}

isScoutUnit(unit) ==
    \A i \in 1..Len(unit.subUnits) :
        /\ "scout" \in DOMAIN unit.subUnits[i].special
        /\ unit.subUnits[i].special.scout

\* .sort((a, b) => (a.subUnits[0].points || 0) - (b.subUnits[0].points || 0))
SortedByPoints(units) ==
    Vals(SortKeyed([i \in 1..Len(units) |->
                       [key |-> units[i].subUnits[1].points, val |-> units[i]]]))

unitsToDeploy == act.unitsToDeploy
scoutUnits == act.scoutUnits
isDeploymentComplete == act.isDeploymentComplete
currentDeploymentPlayer == act.currentDeploymentPlayer
\* the argument of the deployUnit call that is scheduled
isScoutPhase == act.isScoutPhase

InitDeploy ==
    /\ clusters = <<>>
    /\ clusterCache = [s \in Sides |-> <<>>]
    /\ objectives = <<Objective(4800, 2400, Null), Objective(2400, 2400, Null)>>
    /\ currentTurn = "attackers"
    /\ currentRound = 1
    /\ playerWhoFinishedLastRoundFirst = Null
    /\ playerWhoStartedCurrentRound = "attackers"
    /\ pc = "start"
    /\ \E attackers \in AttackerArmies, defenders \in DefenderArmies :
          act = [armies |-> [attackers |-> attackers, defenders |-> defenders],
                 unitsToDeploy |-> [s \in Sides |-> <<>>],
                 scoutUnits |-> [s \in Sides |-> <<>>],
                 isDeploymentComplete |-> FALSE,
                 currentDeploymentPlayer |-> "attackers",
                 attackerDeploymentEdge |-> "top",
                 defenderDeploymentEdge |-> "bottom",
                 isScoutPhase |-> FALSE]
    /\ last = NoLast
    /\ hist = NoHist

deployVars == <<currentTurn, currentRound, playerWhoFinishedLastRoundFirst,
                playerWhoStartedCurrentRound, hist>>

\* startDeploymentPhase: the queues are filled, the roll-off winner places
\* first, and the first deployUnit(false) is scheduled
startDeploymentPhase ==
    /\ pc = "start"
    /\ \E rollOffWinner \in Sides :
          act' = [act EXCEPT
                    !.isDeploymentComplete = FALSE,
                    !.unitsToDeploy =
                        [s \in Sides |->
                            SortedByPoints(SelectSeq(act.armies[s],
                                LAMBDA u : ~isScoutUnit(u)))],
                    !.scoutUnits =
                        [s \in Sides |-> SelectSeq(act.armies[s], LAMBDA u : isScoutUnit(u))],
                    !.attackerDeploymentEdge =
                        IF rollOffWinner = "attackers" THEN "top" ELSE "bottom",
                    !.defenderDeploymentEdge =
                        IF rollOffWinner = "attackers" THEN "bottom" ELSE "top",
                    !.currentDeploymentPlayer = rollOffWinner,
                    !.isScoutPhase = FALSE]
    /\ clusters' = <<>>
    /\ clusterCache' = [s \in Sides |-> <<>>]
    /\ pc' = "deploy"
    /\ last' = [op |-> "startDeploymentPhase"]
    /\ UNCHANGED <<objectives, deployVars>>

deployList == IF isScoutPhase THEN scoutUnits ELSE unitsToDeploy

\* deployUnit finds the queue of the player empty: the turn passes to the
\* opponent, or the scout phase starts, or the deployment is complete
DeployListEmpty ==
    /\ pc = "deploy"
    /\ deployList[currentDeploymentPlayer] = <<>>
    /\ IF deployList[Other(currentDeploymentPlayer)] # <<>>
       THEN /\ act' = [act EXCEPT !.currentDeploymentPlayer = Other(@)]
            /\ pc' = "deploy"
            /\ last' = [op |-> "deployUnit", outcome |-> "passed"]
       ELSE IF ~isScoutPhase /\ \E s \in Sides : scoutUnits[s] # <<>>
       THEN /\ act' = [act EXCEPT !.isScoutPhase = TRUE]
            /\ pc' = "deploy"
            /\ last' = [op |-> "deployUnit", outcome |-> "scouts"]
       ELSE /\ act' = [act EXCEPT !.isDeploymentComplete = TRUE]
            /\ pc' = "complete"
            /\ last' = [op |-> "deployUnit", outcome |-> "complete"]
    /\ UNCHANGED <<clusters, clusterCache, objectives, deployVars>>

\* the footprint findValidPlacementInSection tests: tempUnit at (cx, cy)
TempUnit(unitGroupData, cx, cy) ==
    [name |-> unitGroupData.name,
     wIn |-> createUnitCluster(unitGroupData, "attackers", 0, 0, 0, 0, 0).wIn,
     hIn |-> createUnitCluster(unitGroupData, "attackers", 0, 0, 0, 0, 0).hIn,
     cxIn |-> cx, cyIn |-> cy]

PlacementInfo(tempUnit) ==
    [found |-> TRUE,
     finalCxIn |-> tempUnit.cxIn, finalCyIn |-> tempUnit.cyIn,
     originXInches |-> tempUnit.cxIn - tempUnit.wIn \div 2,
     originYInches |-> tempUnit.cyIn - tempUnit.hIn \div 2]

NoPlacement ==
    [found |-> FALSE, finalCxIn |-> 0, finalCyIn |-> 0,
     originXInches |-> 0, originYInches |-> 0]

\* the y of the rows tried from the deployment edge
RowY(tempUnit, deploymentEdge, yAttempt) ==
    IF deploymentEdge = "top"
    THEN MARGIN_Y - tempUnit.hIn \div 2 - yAttempt * (DIA_IN \div 2)
    ELSE ZONE_H_IN - MARGIN_Y + tempUnit.hIn \div 2 + yAttempt * (DIA_IN \div 2)

\* the attempts of the scan: a row and a random x in the section
Attempts(unitGroupData, deploymentEdge, sectionIndex) ==
    {TempUnit(unitGroupData,
              sectionIndex * (ZONE_W_IN \div 3) + ((ZONE_W_IN \div 3) * r) \div 100,
              RowY(TempUnit(unitGroupData, 0, 0), deploymentEdge, yAttempt)) :
        yAttempt \in 0..(MaxYAttempts - 1), r \in RandomX}

\* an attempt is taken when it lies inside the section and collides with no
\* cluster of either roster
AttemptValid(tempUnit, cs, existingClusters, sectionIndex) ==
    /\ tempUnit.cxIn >= sectionIndex * (ZONE_W_IN \div 3) + tempUnit.wIn \div 2
    /\ tempUnit.cxIn <= (sectionIndex + 1) * (ZONE_W_IN \div 3) - tempUnit.wIn \div 2
    /\ \A s \in Sides : \A i \in 1..Len(existingClusters[s]) :
          ~areClustersColliding(tempUnit, cs[existingClusters[s][i]], 50)

\* findValidPlacementInSection: the x of every attempt is random, so the
\* scan can end at any valid attempt, or find none
findValidPlacementInSection(unitGroupData, deploymentEdge, cs, existingClusters, sectionIndex) ==
    {PlacementInfo(t) : t \in {a \in Attempts(unitGroupData, deploymentEdge, sectionIndex) :
                                  AttemptValid(a, cs, existingClusters, sectionIndex)}}
    \cup {NoPlacement}

\* deployList[player].unshift(unitToDeploy), lost
UnshiftDropped(list, unit) == list

\* deployList[player].unshift(unitToDeploy)
Unshift(list, unit) == <<unit>> \o list

\* the globals with deployList[player] = list
WithDeployList(list) ==
    IF isScoutPhase
    THEN [act EXCEPT !.scoutUnits[currentDeploymentPlayer] = list]
    ELSE [act EXCEPT !.unitsToDeploy[currentDeploymentPlayer] = list]

deploymentEdge ==
    IF currentDeploymentPlayer = "attackers" THEN act.attackerDeploymentEdge
    ELSE act.defenderDeploymentEdge

\* objectives.sort by the distance to the centre of the cluster
SortedByDistance(objs, cluster) ==
    Vals(SortKeyed([i \in 1..Len(objs) |->
                       [key |-> Hypot(objs[i].x - cluster.cxIn, objs[i].y - cluster.cyIn),
                        val |-> objs[i]]]))

\* the scout move: up to 12 inches straight towards the objective
ScoutMoved(newCluster, nearestObj) ==
    Only({IF dist = 0 THEN newCluster
          ELSE ShiftedWithModels(newCluster,
                  ((nearestObj.x - newCluster.cxIn) * Min(1200, dist)) \div dist,
                  ((nearestObj.y - newCluster.cyIn) * Min(1200, dist)) \div dist) :
          dist \in {Hypot(nearestObj.x - newCluster.cxIn,
                          nearestObj.y - newCluster.cyIn)}})

\* the new cluster as it joins the roster: a scout first moves towards the
\* objective nearest to it
Joined(newCluster, objs) ==
    IF isScoutPhase /\ objs # <<>>
    THEN ScoutMoved(newCluster, SortedByDistance(objs, newCluster)[1])
    ELSE newCluster

\* deployUnit places the head of the queue: the cluster joins the roster of
\* the player, and the turn passes to the opponent
DeployPlaced ==
    /\ pc = "deploy"
    /\ deployList[currentDeploymentPlayer] # <<>>
    /\ \E sectionIndex \in 0..2 :
       \E placementInfo \in findValidPlacementInSection(
                Head(deployList[currentDeploymentPlayer]), deploymentEdge,
                clusters, clusterCache, sectionIndex) :
          /\ placementInfo.found
          /\ \E newCluster \in {createUnitCluster(
                    Head(deployList[currentDeploymentPlayer]),
                    currentDeploymentPlayer, Len(clusters) + 1,
                    placementInfo.finalCxIn, placementInfo.finalCyIn,
                    placementInfo.originXInches, placementInfo.originYInches)} :
                IF Len(Head(deployList[currentDeploymentPlayer]).subUnits) = 0
                THEN \* createUnitCluster returns null: the unit goes back
                     \* and no further deployUnit is scheduled
                     /\ act' = WithDeployList(
                                  Unshift(Tail(deployList[currentDeploymentPlayer]),
                                          Head(deployList[currentDeploymentPlayer])))
                     /\ pc' = "stopped"
                     /\ UNCHANGED <<clusters, clusterCache, objectives>>
                ELSE /\ clusters' = Append(clusters, Joined(newCluster, objectives))
                     /\ clusterCache' =
                            [clusterCache EXCEPT ![currentDeploymentPlayer] =
                                Append(@, Len(clusters) + 1)]
                     /\ objectives' =
                            IF isScoutPhase
                            THEN SortedByDistance(objectives, newCluster)
                            ELSE objectives
                     /\ act' = [WithDeployList(Tail(deployList[currentDeploymentPlayer]))
                                  EXCEPT !.currentDeploymentPlayer = Other(@)]
                     /\ pc' = "deploy"
    /\ last' = [op |-> "deployUnit", outcome |-> "placed",
                unit |-> Head(deployList[currentDeploymentPlayer]),
                before |-> [act |-> act, clusters |-> clusters,
                            clusterCache |-> clusterCache]]
    /\ UNCHANGED deployVars

\* deployUnit finds no placement: the unit goes back to the head of its
\* queue, and the turn passes to the opponent
DeployRequeued ==
    /\ pc = "deploy"
    /\ deployList[currentDeploymentPlayer] # <<>>
    /\ \E sectionIndex \in 0..2 :
       \E placementInfo \in findValidPlacementInSection(
                Head(deployList[currentDeploymentPlayer]), deploymentEdge,
                clusters, clusterCache, sectionIndex) :
          ~placementInfo.found
    /\ act' = [WithDeployList(Unshift(Tail(deployList[currentDeploymentPlayer]),
                                      Head(deployList[currentDeploymentPlayer])))
                 EXCEPT !.currentDeploymentPlayer = Other(@)]
    /\ pc' = "deploy"
    /\ last' = [op |-> "deployUnit", outcome |-> "requeued",
                unit |-> Head(deployList[currentDeploymentPlayer]),
                before |-> [act |-> act, clusters |-> clusters,
                            clusterCache |-> clusterCache]]
    /\ UNCHANGED <<clusters, clusterCache, objectives, deployVars>>

NextDeploy ==
    \/ startDeploymentPhase
    \/ DeployListEmpty
    \/ DeployPlaced
    \/ DeployRequeued

SpecDeploy == InitDeploy /\ [][NextDeploy]_vars

\* how often the unit group waits in the queues of the side
TimesQueued(side, unit) ==
    Cardinality({i \in 1..Len(unitsToDeploy[side]) : unitsToDeploy[side][i] = unit})
    + Cardinality({i \in 1..Len(scoutUnits[side]) : scoutUnits[side][i] = unit})

\* how many clusters of the side's roster were made of the unit group
TimesDeployed(side, unit) ==
    Cardinality({id \in SeqToSet(clusterCache[side]) :
                    clusters[id].unitGroupData = unit})

\* C18: during deployment every unit group of a side is either once in the
\* pending queues of its side (main or scout) or deployed as one cluster of
\* its side's roster, and the queues and rosters hold nothing else; a
\* failed placement leaves the unit at the head of its queue, creates no
\* cluster and schedules the next deployUnit; isDeploymentComplete is true
\* only when the main and scout queues of both sides are empty.
C18_NoUnitLostOrDuplicated ==
    pc # "start" =>
        /\ \A s \in Sides :
              /\ \A i \in 1..Len(act.armies[s]) :
                    TimesQueued(s, act.armies[s][i])
                        + TimesDeployed(s, act.armies[s][i]) = 1
              /\ Len(unitsToDeploy[s]) + Len(scoutUnits[s]) + Len(clusterCache[s])
                    = Len(act.armies[s])
              /\ Cardinality(SeqToSet(clusterCache[s])) = Len(clusterCache[s])
        /\ (last.op = "deployUnit" /\ last.outcome = "requeued") =>
              /\ unitsToDeploy = last.before.act.unitsToDeploy
              /\ scoutUnits = last.before.act.scoutUnits
              /\ deployList[Other(currentDeploymentPlayer)] # <<>>
              /\ Head(deployList[Other(currentDeploymentPlayer)]) = last.unit
              /\ clusters = last.before.clusters
              /\ clusterCache = last.before.clusterCache
              /\ pc = "deploy"
        /\ isDeploymentComplete =>
              \A s \in Sides : unitsToDeploy[s] = <<>> /\ scoutUnits[s] = <<>>

\* a placement has just failed while a cluster stands on the board and a
\* scout still waits
C18_Witness ==
    /\ pc = "deploy"
    /\ last.op = "deployUnit" /\ last.outcome = "requeued"
    /\ clusters # <<>>
    /\ \E s \in Sides : scoutUnits[s] # <<>>

(***************************************************************************)
(* SpecMelee: one charge, aiExecuteMeleeAction between two clusters with   *)
(* and without Fear, with every die roll.                                  *)
(***************************************************************************)
Ogre ==
    UnitGroup("Ogre", <<SubUnit("Ogre", 1, 3, 4, <<Sword(1)>>, Special({}, 2, 1))>>)

\* the herald is the first to fall: its Fear is lost with it
Mob ==
    UnitGroup("Mob", <<SubUnit("Mob", 2, 4, 5, <<Knife(2)>>, Special({}, 2, 0)),
                       SubUnit("Herald", 1, 4, 5, <<Knife(1)>>, Special({}, 1, 2))>>)

Guard ==
    UnitGroup("Guard", <<SubUnit("Guard", 2, 4, 4, <<Knife(2)>>, Special({}, 0, 0))>>)

MeleeGroups == {Ogre, Mob, Guard}

InitMelee ==
    /\ \E a \in MeleeGroups, d \in MeleeGroups, fatigued \in BOOLEAN, shaken \in BOOLEAN :
          clusters =
            <<[createUnitCluster(a, "attackers", 1, 3600, 2400, 3537, 2337)
                 EXCEPT !.hasFoughtInMeleeThisRound = fatigued],
              [createUnitCluster(d, "defenders", 2, 3600, 2600, 3537, 2537)
                 EXCEPT !.shaken = shaken]>>
    /\ clusterCache = [attackers |-> <<1>>, defenders |-> <<2>>]
    /\ objectives = <<>>
    /\ currentTurn = "attackers"
    /\ currentRound = 1
    /\ playerWhoFinishedLastRoundFirst = Null
    /\ playerWhoStartedCurrentRound = "attackers"
    /\ pc = "melee"
    /\ act = NoAct
    /\ last = NoLast
    /\ hist = NoHist

\* the charging cluster 1 fights cluster 2
FightMelee ==
    /\ pc = "melee"
    /\ \E r \in aiExecuteMeleeAction(Here, currentTurn, 1, 2, "Charge") :
          /\ clusters' = r.world.clusters
          /\ clusterCache' = r.world.clusterCache
          /\ last' = [op |-> "aiExecuteMeleeAction", result |-> r]
    /\ pc' = "fought"
    /\ UNCHANGED <<objectives, currentTurn, currentRound, act, hist,
                   playerWhoFinishedLastRoundFirst, playerWhoStartedCurrentRound>>

NextMelee == FightMelee

SpecMelee == InitMelee /\ [][NextMelee]_vars

\* the Fear(N) of the sub-units of the cluster that still have models
FearOfSurvivors(cluster) ==
    SumSeq([i \in 1..Len(cluster.subUnitStates) |->
        IF cluster.subUnitStates[i].currentModelsInSubUnit > 0
        THEN cluster.unitGroupData.subUnits[i].special.fear
        ELSE 0])

\* the score of a side: the damage it inflicted plus the Fear of its survivors
AttackerScore == last.result.damage + FearOfSurvivors(last.result.fought.clusters[1])
DefenderScore == last.result.returned + FearOfSurvivors(last.result.fought.clusters[2])

BothSurvived ==
    /\ last.result.fought.clusters[1].currentModels > 0
    /\ last.result.fought.clusters[2].currentModels > 0

\* C20: after a melee exchange both clusters survive, the melee morale test
\* is taken by exactly the side with the strictly lower score (damage
\* inflicted plus the Fear of its own surviving sub-units), by neither when
\* the scores are equal, and by neither when a cluster was destroyed.
C20_LowerScoreTakesMoraleTest ==
    (last.op = "aiExecuteMeleeAction" /\ last.result.weaponsFired) =>
        /\ last.result.moraleTest =
              (IF ~BothSurvived THEN 0
               ELSE IF AttackerScore > DefenderScore THEN 2
               ELSE IF DefenderScore > AttackerScore THEN 1
               ELSE 0)
        /\ \A id \in {1, 2} :
              id # last.result.moraleTest =>
                  clusters[id] = last.result.fought.clusters[id]
        /\ last.result.moraleTest = 0 => clusterCache = last.result.fought.clusterCache
        /\ last.result.moraleTest # 0 =>
              \E dice \in MoraleDice(last.result.fought.clusters[last.result.moraleTest]) :
                  World(clusters, clusterCache)
                      = performMoraleTest(last.result.fought, last.result.moraleTest,
                                          TRUE, dice)

\* both sides dealt the same damage and the Fear of the charging unit
\* decides: the charged unit takes the test
C20_Witness ==
    /\ last.op = "aiExecuteMeleeAction" /\ last.result.weaponsFired
    /\ BothSurvived
    /\ last.result.damage = last.result.returned /\ last.result.damage > 0
    /\ AttackerScore > DefenderScore
    /\ last.result.moraleTest = 2


(***************************************************************************)
(* Specification SpecSaves: a raiding unit shoots at and charges a         *)
(* defending group, again and again, until one of them is destroyed.  The  *)
(* defending group is one unit or a unit and the unit joined to it         *)
(* (parser.js, parseArmybook), either of which may be a hero.              *)
(***************************************************************************)
Raiders ==
    UnitGroup("Raiders", <<SubUnit("Raiders", 2, 3, 4, <<Rifle(2), Knife(2)>>,
                                   Special({}, 2, 0))>>)

Hero(isHero) == Special(IF isHero THEN {"hero"} ELSE {}, 0, 0)

SaveGroups ==
    {UnitGroup("Joined", <<SubUnit("First", 2, 5, 3, <<Knife(2), Sword(1)>>, Hero(h1)),
                           SubUnit("Second", 1, 5, 5, <<Knife(1)>>, Hero(h2))>>) :
        h1 \in BOOLEAN, h2 \in BOOLEAN}
    \cup {UnitGroup("Joined", <<SubUnit("First", 1, 5, 3, <<Knife(1)>>, Hero(h1)),
                                SubUnit("Second", 2, 5, 5, <<Knife(1)>>, Hero(h2))>>) :
        h1 \in BOOLEAN, h2 \in BOOLEAN}
    \cup {UnitGroup("Alone", <<SubUnit("First", 2, 5, 3, <<Knife(1)>>, Hero(h1))>>) :
        h1 \in BOOLEAN}

InitSaves ==
    /\ \E d \in SaveGroups, cover \in BOOLEAN :
          clusters =
            <<createUnitCluster(Raiders, "attackers", 1, 3600, 2400, 3537, 2337),
              [createUnitCluster(d, "defenders", 2, 3600, 2600, 3537, 2537)
                 EXCEPT !.isInCover = cover]>>
    /\ clusterCache = [attackers |-> <<1>>, defenders |-> <<2>>]
    /\ objectives = <<>>
    /\ currentTurn = "attackers"
    /\ currentRound = 1
    /\ playerWhoFinishedLastRoundFirst = Null
    /\ playerWhoStartedCurrentRound = "attackers"
    /\ pc = "fight"
    /\ act = NoAct
    /\ last = NoLast
    /\ hist = NoHist

\* cluster 1 shoots at cluster 2, which stands next to it
ShootAtGroup ==
    /\ pc = "fight" /\ Listed = {1, 2}
    /\ \E r \in aiExecuteShootAction(Here, currentTurn, 1, 2, NoContext, 0) :
          /\ clusters' = r.world.clusters
          /\ clusterCache' = r.world.clusterCache
    /\ last' = [op |-> "aiExecuteShootAction", target |-> clusters[2],
                calls |-> ShootCalls(clusters[1], clusters[2], NoContext, 0)]
    /\ UNCHANGED <<objectives, currentTurn, currentRound, pc, act, hist,
                   playerWhoFinishedLastRoundFirst, playerWhoStartedCurrentRound>>

\* cluster 1 charges cluster 2
ChargeGroup ==
    /\ pc = "fight" /\ Listed = {1, 2}
    /\ \E r \in aiExecuteMeleeAction(Here, currentTurn, 1, 2, "Charge") :
          /\ clusters' = r.world.clusters
          /\ clusterCache' = r.world.clusterCache
          /\ last' = [op |-> "aiExecuteMeleeAction", target |-> clusters[2],
                      calls |-> StrikeCalls(clusters[1], clusters[2], "Charge"),
                      result |-> r]
    /\ UNCHANGED <<objectives, currentTurn, currentRound, pc, act, hist,
                   playerWhoFinishedLastRoundFirst, playerWhoStartedCurrentRound>>

NextSaves == ShootAtGroup \/ ChargeGroup

SpecSaves == InitSaves /\ [][NextSaves]_vars

Survives(cluster, i) == cluster.subUnitStates[i].currentModelsInSubUnit > 0

HeroSurvives(cluster, i) ==
    Survives(cluster, i) /\ cluster.unitGroupData.subUnits[i].special.hero

OtherSurvives(cluster, i) ==
    Survives(cluster, i) /\ ~cluster.unitGroupData.subUnits[i].special.hero

\* the position in the defending group of the sub-unit whose definition
\* the saves must use
SavePosition(cluster) ==
    LET positions == DOMAIN cluster.unitGroupData.subUnits
    IN  IF (\E i \in positions : HeroSurvives(cluster, i))
           /\ (\E i \in positions : OtherSurvives(cluster, i))
        THEN CHOOSE i \in positions :
                /\ OtherSurvives(cluster, i)
                /\ \A j \in positions : OtherSurvives(cluster, j) => i <= j
        ELSE Len(cluster.unitGroupData.subUnits)

\* C22: every attack of a shooting action and every strike of the charging
\* unit in a melee rolls the defender's saves with the definition of the
\* last sub-unit of the defending group, unless a hero sub-unit with
\* surviving models and a non-hero sub-unit with surviving models are both
\* present, when it is the definition of the first surviving non-hero
\* sub-unit.
C22_SavesOfLastOrFirstNonHero ==
    last.op \in {"aiExecuteShootAction", "aiExecuteMeleeAction"} =>
        /\ last.calls # <<>>
        /\ \A k \in DOMAIN last.calls :
              last.calls[k].defenderSubUnit =
                  last.target.unitGroupData.subUnits[SavePosition(last.target)]

\* a hero joined behind a unit that still has models: the strikes of the
\* charge are saved with the defense of the unit listed first
C22_Witness ==
    /\ last.op = "aiExecuteMeleeAction"
    /\ Len(last.target.subUnitStates) = 2
    /\ HeroSurvives(last.target, 2) /\ OtherSurvives(last.target, 1)
    /\ last.target.currentModels < last.target.totalModels
    /\ \A k \in DOMAIN last.calls : last.calls[k].defenderSubUnit.name = "First"

\* the charged cluster once the wounds of the charge are applied to it
StruckDefender ==
    IF last'.result.damage > 0
    THEN applyWoundsToCluster(clusters[2], PacketCount(last'.result.damage)).cluster
    ELSE clusters[2]

\* the melee weapons a sub-unit state with `models` models is left with
WeaponsLeft(subUnitState) ==
    MeleeWeapons(getUpdatedWeaponLoadoutForSubUnit(subUnitState))

\* the strikes the survivors of the struck cluster can make
StrikesOfSurvivors(struck) ==
    ConcatAll([i \in 1..Len(struck.subUnitStates) |->
        IF struck.subUnitStates[i].currentModelsInSubUnit > 0
        THEN [k \in 1..Len(WeaponsLeft(struck.subUnitStates[i])) |->
                AttackCall(struck.unitGroupData.subUnits[i],
                           WeaponsLeft(struck.subUnitStates[i])[k],
                           clusters[1].unitGroupData.subUnits[1],
                           clusters[1].currentModels,
                           ActionContext(FALSE, FALSE, FALSE), FALSE,
                           IsFatigued(clusters[2]), struck.unitGroupData)]
        ELSE <<>>])

\* C23: in a melee exchange the wounds of the charging cluster are applied
\* to the defender and its destruction is checked before it strikes back:
\* a defender left with no models is taken off its roster and makes no
\* return strike, and a surviving defender strikes back with exactly the
\* melee weapons of its sub-units that still have models, in the loadout
\* recomputed for the models it has left.
C23_ReturnStrikeAfterWounds ==
    [][(last'.op = "aiExecuteMeleeAction" /\ last'.result.weaponsFired) =>
          /\ last'.result.fought.clusters[2] =
                [StruckDefender EXCEPT !.hasFoughtInMeleeThisRound =
                    @ \/ StruckDefender.currentModels > 0]
          /\ IF StruckDefender.currentModels <= 0
             THEN /\ ~last'.result.struckBack
                  /\ last'.result.returned = 0
                  /\ 2 \notin SeqToSet(last'.result.fought.clusterCache.defenders)
                  /\ last'.result.fought.clusters[1] =
                        [clusters[1] EXCEPT !.hasFoughtInMeleeThisRound = TRUE]
             ELSE /\ last'.result.struckBack
                  /\ last'.result.returned \in
                        TotalDamageOutcomes(StrikesOfSurvivors(StruckDefender))]_vars

\* the charge kills one of two models that shared two knives and a sword:
\* the survivor, with the hero joined to it, strikes back
C23_Witness ==
    /\ last.op = "aiExecuteMeleeAction" /\ last.result.weaponsFired
    /\ last.target.subUnitStates[1].currentModelsInSubUnit = 2
    /\ Len(last.target.subUnitStates[1].effectiveWeapons) = 2
    /\ last.result.fought.clusters[2].subUnitStates[1].currentModelsInSubUnit = 1
    /\ last.result.struckBack /\ last.result.returned > 0

(***************************************************************************)
(* Specification SpecHold: one activation of a shooting unit, as the Hold  *)
(* and Advance cases of the activation switch run it (the move of Advance  *)
(* is left out).  Hold calls aiExecuteShootAction(unit, target, action)    *)
(* with the action name, Advance calls it with no third argument.          *)
(***************************************************************************)
MarksmanQualities == {3, 5, 6}

Longrifle(reliable) ==
    Weapon("Longrifle", 1, 2400, 2, 0, [NoWeaponSpecial EXCEPT !.reliable = reliable])

Marksmen ==
    {UnitGroup("Marksmen",
        <<SubUnit("Marksmen", 1, q, 4, <<Longrifle(reliable)>>,
                  Special(IF goodShot THEN {"goodShot"} ELSE {}, 0, 0))>>) :
        q \in MarksmanQualities, reliable \in BOOLEAN, goodShot \in BOOLEAN}

Targets ==
    UnitGroup("Targets", <<SubUnit("Targets", 3, 4, 5, <<Knife(3)>>, Special({}, 0, 0))>>)

InitHold ==
    /\ \E g \in Marksmen :
          clusters = <<createUnitCluster(g, "attackers", 1, 3600, 2400, 3537, 2337),
                       createUnitCluster(Targets, "defenders", 2, 3600, 3600, 3411, 3474)>>
    /\ clusterCache = [attackers |-> <<1>>, defenders |-> <<2>>]
    /\ objectives = <<>>
    /\ currentTurn = "attackers"
    /\ currentRound = 1
    /\ playerWhoFinishedLastRoundFirst = Null
    /\ playerWhoStartedCurrentRound = "attackers"
    /\ pc = "ready"
    /\ act = NoAct
    /\ last = NoLast
    /\ hist = NoHist

\* the one attack of the activation, with the action context the switch passes
ShotOf(action) ==
    ShootCalls(clusters[1], clusters[2],
               IF action = "Hold" THEN HoldString ELSE NoContext, 0)[1]

\* aiExecuteShootAction with the dice of its attack, then onActionComplete
ShootOnce(action) ==
    /\ pc = "ready"
    /\ \E dice \in AttackDice(ShotOf(action)) :
         \E r \in VolleyLanded(Here, currentTurn, 2,
                               RollAttack(ShotOf(action), dice).woundPackets) :
            /\ clusters' = [r.world.clusters EXCEPT ![1].activated = TRUE]
            /\ clusterCache' = r.world.clusterCache
            /\ last' = [op |-> action, dice |-> dice,
                        hits |-> RollAttack(ShotOf(action), dice).hits]
    /\ pc' = "finalize"
    /\ UNCHANGED <<objectives, currentTurn, currentRound, act, hist,
                   playerWhoFinishedLastRoundFirst, playerWhoStartedCurrentRound>>

HoldAndShoot == ShootOnce("Hold")

AdvanceAndShoot == ShootOnce("Advance")

NextHold == HoldAndShoot \/ AdvanceAndShoot

SpecHold == InitHold /\ [][NextHold]_vars

Marksman == clusters[1].unitGroupData.subUnits[1]

\* the threshold of the specification: Good Shot counts on Hold, Reliable
\* lowers the result by one
ThresholdByAction(action) ==
    LET base == IF Marksman.special.goodShot /\ action = "Hold"
                THEN Min(Marksman.quality, 4)
                ELSE Marksman.quality
    IN  IF Marksman.weapons[1].special.reliable THEN Max(2, base - 1) ELSE base

HitDiceAt(threshold) ==
    {i \in 1..DiceCount(Marksman.weapons[1]) :
        last.dice[i] = 6 \/ last.dice[i] >= threshold}

\* C25: a shot of the Hold action by a sub-unit with Good Shot hits on
\* min(quality, 4) or more, a shot of any other action on the quality or
\* more, both lowered by one (to no less than 2) for a Reliable weapon.
C25_GoodShotOnHold ==
    last.op \in {"Hold", "Advance"} =>
        Len(last.hits) = Cardinality(HitDiceAt(ThresholdByAction(last.op)))

(***************************************************************************)
(* Specification SpecHits: gameRollAttackSequence for one hit die, over    *)
(* the rules that change the hit roll.  The special rules of the attacking *)
(* sub-unit are those parseRule can leave: Furious sets furious and        *)
(* furiousOriginal, Battle Drills sets battleDrills and a furious that is  *)
(* not original.  The action contexts are those the callers pass.          *)
(***************************************************************************)
InitCalls(calls) ==
    /\ \E c \in calls : act = c
    /\ clusters = <<>>
    /\ clusterCache = [attackers |-> <<>>, defenders |-> <<>>]
    /\ objectives = <<>>
    /\ currentTurn = "attackers"
    /\ currentRound = 1
    /\ playerWhoFinishedLastRoundFirst = Null
    /\ playerWhoStartedCurrentRound = "attackers"
    /\ pc = "attack"
    /\ last = NoLast
    /\ hist = NoHist

FuriousRules ==
    {{}, {"furious", "furiousOriginal"}, {"battleDrills", "furious"},
     {"battleDrills", "furious", "furiousOriginal"}}

HitWeapons ==
    {Weapon("W", 1, range, 1, 0, [NoWeaponSpecial EXCEPT !.flux = flux]) :
        range \in {0, 2400}, flux \in BOOLEAN}

Strikers ==
    {SubUnit("Atk", 1, quality, 4, <<>>,
             Special(rules \cup (IF relentless THEN {"relentless"} ELSE {}), 0, 0)) :
        quality \in {4, 6}, rules \in FuriousRules, relentless \in BOOLEAN}

Drilled == SubUnit("Drilled", 1, 4, 4, <<>>, Special({"battleDrills", "furious"}, 0, 0))

HitCalls ==
    {AttackCall(a, w, SubUnit("Def", 2, 4, 4, <<>>, Special({}, 0, 0)), 2,
                context, FALSE, fatigued,
                UnitGroup("Atk", IF joined THEN <<a, Drilled>> ELSE <<a>>)) :
        a \in Strikers, w \in HitWeapons,
        context \in {NoContext, HoldString, ChargeContext},
        fatigued \in BOOLEAN, joined \in BOOLEAN}

SpecHits == InitCalls(HitCalls) /\ [][NextAttack]_vars

RolledHits == Len(SelectSeq(last.hits, LAMBDA hit : ~hit.fromExtra))
BonusHits == Len(SelectSeq(last.hits, LAMBDA hit : hit.fromExtra))

OnCharge == act.actionContext.isCharge /\ IsMelee(act.weapon)

DrillsInGroup ==
    \E i \in DOMAIN act.group.subUnits : act.group.subUnits[i].special.battleDrills

DoubleFurious ==
    OnCharge /\ DrillsInGroup /\ act.attackerSubUnit.special.furiousOriginal

BonusOnSix ==
    \/ OnCharge /\ (act.attackerSubUnit.special.furious \/ DrillsInGroup)
    \/ (act.actionContext.isHold \/ act.actionContext.isHoldString)
          /\ act.attackerSubUnit.special.relentless
    \/ act.weapon.special.flux

\* C26: a hit die gives at most one bonus hit, and only when it hit itself;
\* on a Charge with a melee weapon, a sub-unit with original Furious in a
\* group with Battle Drills gets the bonus hit for every hitting 5 or 6,
\* whether or not Flux or Relentless apply too; otherwise Furious on a
\* Charge, Relentless on Hold and Flux give it for a hitting 6 only.
C26_OneBonusHitPerQualifyingRoll ==
    last.op = "gameRollAttackSequence" =>
        /\ BonusHits <= RolledHits
        /\ BonusHits =
              (IF RolledHits = 1
                  /\ \/ DoubleFurious /\ last.dice[1] >= 5
                     \/ ~DoubleFurious /\ BonusOnSix /\ last.dice[1] = 6
               THEN 1 ELSE 0)

(***************************************************************************)
(* Specification SpecBlast: gameRollAttackSequence for one hit die of a    *)
(* ranged weapon with or without Blast and Flux, against one to three      *)
(* models, in cover or not.                                                *)
(***************************************************************************)
BlastWeapons ==
    {Weapon("W", 1, 2400, 1, 0, [NoWeaponSpecial EXCEPT !.flux = flux, !.blast = blast]) :
        flux \in BOOLEAN, blast \in 0..3}

BlastCalls ==
    {AttackCall(SubUnit("Atk", 1, 4, 4, <<w>>, Special({}, 0, 0)), w,
                SubUnit("Def", 3, 4, 4, <<>>, Special({}, 0, 0)), models,
                NoContext, cover, FALSE,
                UnitGroup("Atk", <<SubUnit("Atk", 1, 4, 4, <<w>>, Special({}, 0, 0))>>)) :
        w \in BlastWeapons, models \in 1..3, cover \in BOOLEAN}

SpecBlast == InitCalls(BlastCalls) /\ [][NextAttack]_vars

\* the hits of the quality 4 attacker's die, the bonus hit of Flux included
HitsBeforeBlast ==
    IF last.dice[1] < 4 THEN 0
    ELSE IF act.weapon.special.flux /\ last.dice[1] = 6 THEN 2
    ELSE 1

BlastMultiplier ==
    IF act.weapon.special.blast # 0
    THEN Min(act.weapon.special.blast, act.defenderClusterModelsForBlast)
    ELSE 1

\* C27: against a defender with at least one model, the saves rolled are
\* the hits (bonus hits included) times min(N, models of the defender) for
\* a weapon with Blast(N), and the hits for a weapon without Blast.
C27_BlastMultipliesHits ==
    last.op = "gameRollAttackSequence" =>
        /\ Len(last.saves) = HitsBeforeBlast * BlastMultiplier
        /\ Len(last.dice) = 1 + Len(last.saves)

\* Blast(3) against two models: the 6 of a Flux weapon makes four saves
C27_Witness ==
    /\ last.op = "gameRollAttackSequence"
    /\ act.weapon.special.blast = 3 /\ act.defenderClusterModelsForBlast = 2
    /\ act.weapon.special.flux /\ last.dice[1] = 6
    /\ Len(last.saves) = 4

\* the cover bonus the save of a hit was rolled with (defense 4, AP 0)
CoverBonusOf(save) == 4 - save.saveTarget

\* C28: against a target in cover, every save of a weapon without Blast is
\* rolled with the cover bonus of 1, and every save of a weapon with Blast
\* is rolled without it, the hits a Blast weapon rolled itself and the hits
\* of a Blast whose multiplier is 1 included.
C28_BlastIgnoresCover ==
    (last.op = "gameRollAttackSequence" /\ act.isTargetInCover) =>
        \A k \in DOMAIN last.saves :
            CoverBonusOf(last.saves[k]) = (IF act.weapon.special.blast # 0 THEN 0 ELSE 1)

\* Blast(1) on a target in cover: the one hit is saved on 4+, not 3+
C28_Witness ==
    /\ last.op = "gameRollAttackSequence" /\ act.isTargetInCover
    /\ act.weapon.special.blast = 1
    /\ Len(last.saves) = 1
    /\ last.saves[1].saveRoll = 3 /\ last.saves[1].failed

\* C28 as stated: of the hits of a Blast weapon only the duplicates lose the
\* cover bonus; the first of every BlastMultiplier copies keeps it
C28_OnlyDuplicatesLoseCover ==
    (last.op = "gameRollAttackSequence" /\ act.isTargetInCover) =>
        \A k \in DOMAIN last.saves :
            CoverBonusOf(last.saves[k]) =
                (IF (k - 1) % BlastMultiplier = 0 THEN 1 ELSE 0)

(***************************************************************************)
(* Specification SpecPackets: gameRollAttackSequence for one hit die of a  *)
(* weapon with or without Deadly and Flux, against a defender with or      *)
(* without Medical Training and Self-Repair.  The calls are those that     *)
(* read at most MaxPreventionRolls prevention dice.                        *)
(***************************************************************************)
MaxPreventionRolls == 4

DeadlyWeapons ==
    {Weapon("W", 1, 2400, 1, 0, [NoWeaponSpecial EXCEPT !.flux = flux, !.deadly = deadly]) :
        flux \in BOOLEAN, deadly \in {0, 2, 3}}

Patients ==
    {SubUnit("Def", 3, 4, 4, <<>>, Special(rules, 0, 0)) :
        rules \in SUBSET {"medicalTraining", "selfRepair"}}

\* the most prevention dice a call can read
PreventionRollsOf(weapon, defenderSubUnit) ==
    (IF weapon.special.flux THEN 2 ELSE 1)
    * (IF weapon.special.deadly # 0 THEN weapon.special.deadly ELSE 1)
    * ((IF defenderSubUnit.special.medicalTraining THEN 1 ELSE 0)
       + (IF defenderSubUnit.special.selfRepair THEN 1 ELSE 0))

Shooter(weapon) == SubUnit("Atk", 1, 4, 4, <<weapon>>, Special({}, 0, 0))

PacketPairs ==
    {p \in DeadlyWeapons \X Patients :
        PreventionRollsOf(p[1], p[2]) <= MaxPreventionRolls}

PacketCalls ==
    {AttackCall(Shooter(p[1]), p[1], p[2], 3, NoContext, FALSE, FALSE,
                UnitGroup("Atk", <<Shooter(p[1])>>)) : p \in PacketPairs}

SpecPackets == InitCalls(PacketCalls) /\ [][NextAttack]_vars

DeadlyValue == IF act.weapon.special.deadly # 0 THEN act.weapon.special.deadly ELSE 1

FailedSaves == Cardinality({k \in DOMAIN last.saves : last.saves[k].failed})

\* the dice read after the saves: first those of Medical Training, one per
\* wound point, then those of Self-Repair, one per point left
MedicalRolls ==
    IF act.defenderSubUnit.special.medicalTraining THEN FailedSaves * DeadlyValue ELSE 0

MedicalFrom == 1 + Len(last.saves)

PointsAfterMedical ==
    FailedSaves * DeadlyValue
    - Cardinality({i \in 1..MedicalRolls : last.dice[MedicalFrom + i] >= 5})

RepairRolls ==
    IF act.defenderSubUnit.special.selfRepair THEN PointsAfterMedical ELSE 0

PointsAfterRepair ==
    PointsAfterMedical
    - Cardinality({i \in 1..RepairRolls : last.dice[MedicalFrom + MedicalRolls + i] = 6})

\* C29: the wound packets returned are integers from 1 to the Deadly value
\* of the weapon (1 without Deadly), at most one per failed save, and
\* totalDamageInflicted is their sum; Medical Training prevents one point
\* per roll of 5 or 6, Self-Repair then one point per roll of 6, rolled for
\* the points Medical Training left, so the total is the failed saves times
\* the Deadly value less the points prevented.
C29_PacketsWithinDeadly ==
    last.op = "gameRollAttackSequence" =>
        /\ \A k \in DOMAIN last.woundPackets :
              last.woundPackets[k] \in 1..DeadlyValue
        /\ Len(last.woundPackets) <= FailedSaves
        /\ last.totalDamageInflicted = SumSeq(last.woundPackets)
        /\ Len(last.dice) = MedicalFrom + MedicalRolls + RepairRolls
        /\ last.totalDamageInflicted = PointsAfterRepair
        /\ (MedicalRolls = 0 /\ RepairRolls = 0) =>
              last.woundPackets = [k \in 1..FailedSaves |-> DeadlyValue]

\* a Deadly(2) hit gets through the save; Medical Training stops one point,
\* Self-Repair the other, and no packet is returned
C29_Witness ==
    /\ last.op = "gameRollAttackSequence"
    /\ act.weapon.special.deadly = 2
    /\ FailedSaves = 1
    /\ MedicalRolls = 2 /\ PointsAfterMedical = 1
    /\ RepairRolls = 1 /\ PointsAfterRepair = 0
    /\ last.woundPackets = <<>>


(***************************************************************************)
(* Specification SpecFrames: the game of SpecBoard with the movement of an *)
(* Advance, a Rush or a Charge played frame by frame, as                   *)
(* animateUnitMovement plays it with requestAnimationFrame.  pc is the     *)
(* position of the click handler of ui.js: "ready" when no handler runs,   *)
(* "moving" while it awaits the promise of the action and the animation    *)
(* runs, "finalize" once the promise is resolved.                          *)
(***************************************************************************)

\* the handlers of aiButton and playRoundButton disable both buttons before
\* they await the activation and enable them after finalizeAITurn
ButtonsAlwaysEnabled == TRUE

ButtonsEnabled == pc = "ready"

\* the distances a frame can add: deltaTimeMs * MOVEMENT_SPEED_IN_PER_MS
FrameMoves == {0, 300, 600}

\* the arguments of animateUnitMovement: target coordinates and distance
MovePlan(x, y, dist) == [x |-> x, y |-> y, dist |-> dist]

PlanToObjective(unitCluster, objective, moveDist) ==
    MovePlan(objective.x, objective.y,
             Min(moveDist, Hypot(unitCluster.cxIn - objective.x,
                                 unitCluster.cyIn - objective.y)))

PlanToGapPoint(unitCluster, point, moveDist) ==
    MovePlan(point.x, point.y,
             Min(moveDist, Hypot(unitCluster.cxIn - point.x,
                                 unitCluster.cyIn - point.y)))

\* the copy of an enemy cluster has no x and no y: the distance is 0 when
\* the enemy is nearer than requiredGap
PlanToEnemy(unitCluster, target, moveDist) ==
    IF CentreDist(unitCluster, target) > RequiredGap(unitCluster, target)
    THEN Only({PlanToGapPoint(unitCluster, point, moveDist) :
                  point \in {GapPoint(unitCluster, target)}})
    ELSE MovePlan(unitCluster.cxIn, unitCluster.cyIn, 0)

PlanToCharge(unitCluster, target, chargeMoveDist) ==
    IF CentreDist(unitCluster, target) > 0
    THEN MovePlan(target.cxIn - ((target.cxIn - unitCluster.cxIn)
                                    * getEffectiveRadius(target))
                                 \div CentreDist(unitCluster, target),
                  target.cyIn - ((target.cyIn - unitCluster.cyIn)
                                    * getEffectiveRadius(target))
                                 \div CentreDist(unitCluster, target),
                  Min(Max(0, CentreDist(unitCluster, target)
                               - getEffectiveRadius(unitCluster)
                               - getEffectiveRadius(target)),
                      chargeMoveDist))
    ELSE MovePlan(unitCluster.cxIn, unitCluster.cyIn, 0)

PlanTowards(unit, target, moveDist) ==
    IF target.kind = "objective"
    THEN PlanToObjective(clusters[unit], objectives[target.ref], moveDist)
    ELSE PlanToEnemy(clusters[unit], clusters[target.ref], moveDist)

\* the closure of one call of animateUnitMovement: the cluster as it stood
\* when the call was made, the distance moved so far, whether a frame has
\* set lastTimestamp, and what the callback needs
Animation(unit, action, plan, shootTarget, target) ==
    [unit |-> unit, action |-> action, plan |-> plan,
     original |-> clusters[unit], movedSoFarIn |-> 0, lastTimestamp |-> FALSE,
     shootTarget |-> shootTarget, target |-> target]

\* totalDistToTarget < 0.01 || distanceToMoveIn <= 0
NothingToMove(a) ==
    \/ Hypot(a.plan.x - a.original.cxIn, a.plan.y - a.original.cyIn) < 1
    \/ a.plan.dist <= 0

\* the cluster of the animation after it has moved movedSoFarIn
FramePosition(a, movedSoFarIn) ==
    animateUnitMovement(a.original, a.plan.x, a.plan.y, movedSoFarIn)

FinalPosition(a) == FramePosition(a, a.plan.dist)

\* the callback handed to animateUnitMovement, run with the unit at `moved`
CallbackOutcomes(a, moved) ==
    CASE a.action = "Advance" -> AdvanceOutcomes(a.unit, moved, a.shootTarget)
      [] a.action = "Rush" -> RushOutcomes(a.unit, moved)
      [] OTHER -> ChargeOutcomes(a.unit, a.target, moved)

\* the clusters with every position taken away: what an attack can change
Standing(cs) ==
    [id \in DOMAIN cs |->
        [cs[id] EXCEPT !.cxIn = 0, !.cyIn = 0, !.originXIn = 0,
                       !.originYIn = 0, !.models = <<>>]]

\* the callback and onActionComplete at the end of an animation
CallbackRun(a, outcomes) ==
    /\ \E o \in outcomes :
          /\ clusters' = [o.world.clusters EXCEPT ![a.unit].activated = TRUE]
          /\ clusterCache' = o.world.clusterCache
          /\ last' = [op |-> "perform", unit |-> a.unit, action |-> a.action,
                      moves |-> o.moves, from |-> a.original,
                      changed |-> Standing(o.world.clusters) # Standing(clusters)]
    /\ hist' = Observe(hist, clusters', clusterCache')
    /\ pc' = "finalize"
    /\ act' = NoAct
    /\ UNCHANGED <<objectives, currentTurn, currentRound,
                   playerWhoFinishedLastRoundFirst, playerWhoStartedCurrentRound>>

\* animateUnitMovement is called: the callback runs at once when there is
\* nothing to move, and the first frame is requested otherwise
Animate(a) ==
    IF NothingToMove(a)
    THEN CallbackRun(a, CallbackOutcomes(a, a.original))
    ELSE /\ act' = a
         /\ pc' = "moving"
         /\ last' = [op |-> "animate", unit |-> a.unit, action |-> a.action]
         /\ UNCHANGED <<clusters, clusterCache, objectives, currentTurn,
                        currentRound, playerWhoFinishedLastRoundFirst,
                        playerWhoStartedCurrentRound, hist>>

StartAdvance ==
    /\ ButtonsEnabled /\ currentRound <= MaxRound
    /\ \E unit \in Candidates(FALSE) : \E d \in Chosen(unit, "Advance") :
          \E target \in Aimed(d) :
             Animate(Animation(unit, "Advance",
                        PlanTowards(unit, target,
                            getUnitMoveValue(clusters[unit], "advance")),
                        FinalShootTarget(target, d.shootTarget.ref), 0))

StartRush ==
    /\ ButtonsEnabled /\ currentRound <= MaxRound
    /\ \E unit \in Candidates(FALSE) : \E d \in Chosen(unit, "Rush") :
          \E target \in Aimed(d) :
             Animate(Animation(unit, "Rush",
                        PlanTowards(unit, target,
                            getUnitMoveValue(clusters[unit], "rush")),
                        0, 0))

StartCharge ==
    /\ ButtonsEnabled /\ currentRound <= MaxRound
    /\ \E unit \in Candidates(FALSE) : \E d \in Chosen(unit, "Charge") :
          /\ d.target.kind = "unit"
          /\ Animate(Animation(unit, "Charge",
                        PlanToCharge(clusters[unit], clusters[d.target.ref],
                            getUnitMoveValue(clusters[unit], "charge")),
                        0, d.target.ref))

\* a frame that leaves the animation unfinished: the cluster is moved and
\* the next frame is requested
FrameMoved(movedSoFarIn) ==
    /\ clusters' = [clusters EXCEPT ![act.unit] = FramePosition(act, movedSoFarIn)]
    /\ act' = [act EXCEPT !.movedSoFarIn = movedSoFarIn, !.lastTimestamp = TRUE]
    /\ last' = [op |-> "frame", unit |-> act.unit, action |-> act.action]
    /\ UNCHANGED <<clusterCache, objectives, currentTurn, currentRound, pc,
                   playerWhoFinishedLastRoundFirst,
                   playerWhoStartedCurrentRound, hist>>

\* step(timestamp): the first frame only sets lastTimestamp; the frame that
\* reaches distanceToMoveIn snaps the cluster to its final position and
\* runs the callback
Frame ==
    /\ pc = "moving"
    /\ \E delta \in (IF act.lastTimestamp THEN FrameMoves ELSE {0}) :
       \E movedSoFarIn \in {Min(act.movedSoFarIn + delta, act.plan.dist)} :
          IF movedSoFarIn < act.plan.dist
          THEN FrameMoved(movedSoFarIn)
          ELSE CallbackRun(act, CallbackOutcomes(act, FinalPosition(act)))

NextFrames ==
    \/ ActivateNone
    \/ ActivateIdle
    \/ ActivateThrows
    \/ PerformHold
    \/ StartAdvance
    \/ StartRush
    \/ StartCharge
    \/ Frame
    \/ finalizeAITurn

SpecFrames == InitBoard /\ [][NextFrames]_vars

\* the game state finalizeAITurn writes
TurnState ==
    <<currentTurn, currentRound, objectives, playerWhoFinishedLastRoundFirst,
      playerWhoStartedCurrentRound>>

\* some cluster is marked activated in the step
NewlyActivated(id) == clusters'[id].activated /\ ~clusters[id].activated

\* C32: while the animation of an action runs, the only steps are frames of
\* that animation: no other unit is activated, finalizeAITurn does not run
\* and no attack is resolved; the callback (the shooting of an Advance, the
\* melee of a Charge) runs from the final position of the unit, and a unit
\* is marked activated only in the step that runs it
C32_ActionsNeverOverlap ==
    [][/\ pc = "moving" =>
             /\ last'.op \in {"frame", "perform"}
             /\ last'.unit = act.unit /\ last'.action = act.action
             /\ TurnState' = TurnState
             /\ last'.op = "frame" =>
                   /\ pc' = "moving"
                   /\ Standing(clusters') = Standing(clusters)
                   /\ clusterCache' = clusterCache
                   /\ \A id \in DOMAIN clusters :
                         id # act.unit => clusters'[id] = clusters[id]
             /\ last'.op = "perform" =>
                   /\ pc' = "finalize"
                   /\ \E m \in last'.moves : m.after = FinalPosition(act)
       /\ \A id \in DOMAIN clusters :
             NewlyActivated(id) =>
                /\ last'.op \in {"perform", "activate"}
                /\ last'.unit = id /\ pc' = "finalize"
                /\ pc = "ready" \/ (pc = "moving" /\ act.unit = id)]_vars

\* the callback of an Advance or a Charge has run after a frame that left
\* the unit between its first and its final position, and its attack has
\* changed a cluster
C32_Witness ==
    /\ last.op = "perform" /\ last.action \in {"Advance", "Charge"}
    /\ pc = "finalize" /\ "from" \in DOMAIN last
    /\ last.changed
    /\ \E m \in last.moves :
          /\ m.after.id = last.unit
          /\ <<m.before.cxIn, m.before.cyIn>> # <<last.from.cxIn, last.from.cyIn>>
          /\ <<m.before.cxIn, m.before.cyIn>> # <<m.after.cxIn, m.after.cyIn>>


(***************************************************************************)
(* Specification SpecFactory: createUnitCluster for a unit group drawn     *)
(* from a bounded set of groups (no weapon, melee and ranged weapons, a    *)
(* weapon without attacks, equal and unequal goodness), followed by calls  *)
(* of getUpdatedWeaponLoadoutForSubUnit for every number of surviving      *)
(* models of a sub-unit.                                                   *)
(***************************************************************************)
MaxFactoryModels == 3

Cannon ==
    Weapon("Cannon", 1, 3600, 1, 2, [NoWeaponSpecial EXCEPT !.blast = 3])

\* one copy of each weapon of the armoury; the Dud has no attacks
FactoryArms ==
    {Weapon("Dagger", 1, 0, 1, 0, NoWeaponSpecial), Sword(1), Rifle(1), Cannon,
     Weapon("Dud", 1, 1200, 0, 0, NoWeaponSpecial)}

FactoryEntries ==
    {[w EXCEPT !.amount = a] : w \in FactoryArms, a \in 1..MaxFactoryModels}

\* weapon lists of up to two different weapons
FactoryLoadouts ==
    {<<>>} \cup {<<w>> : w \in FactoryEntries}
           \cup {<<p[1], p[2]>> : p \in {q \in FactoryEntries \X FactoryEntries :
                                           q[1].name # q[2].name}}

FactorySubUnits ==
    {SubUnit("Crew", m, 4, 4, weapons, Special({}, 0, 0)) :
        m \in 1..MaxFactoryModels, weapons \in FactoryLoadouts}

\* groups of one sub-unit, alone or joined by a hero with a sword or a rifle
FactoryGroups ==
    {UnitGroup("Crew", <<su>>) : su \in FactorySubUnits}
        \cup {UnitGroup("Crew", <<su, SubUnit("Captain", 1, 3, 3, <<w>>,
                                              Special({"hero"}, 0, 0))>>) :
                 su \in FactorySubUnits, w \in {Sword(1), Rifle(1)}}

InitFactory ==
    /\ clusters = <<>>
    /\ clusterCache = [attackers |-> <<>>, defenders |-> <<>>]
    /\ objectives = <<>>
    /\ currentTurn = "attackers"
    /\ currentRound = 1
    /\ playerWhoFinishedLastRoundFirst = Null
    /\ playerWhoStartedCurrentRound = "attackers"
    /\ pc = "parsed"
    /\ \E g \in FactoryGroups : act = [unit |-> 0, group |-> g]
    /\ last = NoLast
    /\ hist = NoHist

\* deployUnit: clusterCache[side].push(createUnitCluster(...))
CreateCluster ==
    /\ pc = "parsed"
    /\ clusters' = <<Deployed(act.group, "attackers", 1, 3600, 1200)>>
    /\ clusterCache' = [clusterCache EXCEPT !.attackers = <<1>>]
    /\ last' = [op |-> "createUnitCluster", unit |-> 1]
    /\ pc' = "deployed"
    /\ UNCHANGED <<objectives, currentTurn, currentRound, act, hist,
                   playerWhoFinishedLastRoundFirst, playerWhoStartedCurrentRound>>

\* the state of a sub-unit left with currentModels models
Survivors(subUnitState, currentModels) ==
    [subUnitState EXCEPT !.currentModelsInSubUnit = currentModels]

\* subUnitState.effectiveWeapons = getUpdatedWeaponLoadoutForSubUnit(subUnitState)
\* for a sub-unit that has lost models
UpdateLoadout ==
    /\ pc = "deployed"
    /\ \E i \in 1..Len(clusters[1].subUnitStates) :
       \E n \in 0..clusters[1].subUnitStates[i].currentModelsInSubUnit :
       \E state \in {Survivors(clusters[1].subUnitStates[i], n)} :
       \E loadout \in {getUpdatedWeaponLoadoutForSubUnit(state)} :
          /\ clusters' = [clusters EXCEPT ![1].subUnitStates[i] =
                             [state EXCEPT !.effectiveWeapons = loadout]]
          /\ last' = [op |-> "getUpdatedWeaponLoadoutForSubUnit", unit |-> 1,
                      state |-> state, loadout |-> loadout]
    /\ UNCHANGED <<clusterCache, objectives, currentTurn, currentRound, pc, act,
                   hist, playerWhoFinishedLastRoundFirst,
                   playerWhoStartedCurrentRound>>

NextFactory == CreateCluster \/ UpdateLoadout

SpecFactory == InitFactory /\ [][NextFactory]_vars

\* some weapon of the kind (ranged: range > 0) has positive goodness
SomeGoodness(weapons, ranged) ==
    \E k \in 1..Len(weapons) :
        /\ (weapons[k].range > 0) = ranged
        /\ calculateWeaponGoodness(weapons[k]) > 0

CopyCount(weapons, spec) ==
    SumSeq([k \in 1..Len(weapons) |->
              IF [weapons[k] EXCEPT !.amount = 1] = spec
              THEN weapons[k].amount ELSE 0])

SpecsOf(weapons) == {[weapons[k] EXCEPT !.amount = 1] : k \in 1..Len(weapons)}

TotalGoodness(weapons) ==
    SumSeq([k \in 1..Len(weapons) |-> calculateWeaponGoodness(weapons[k])])

\* the single copies of a sub-unit's weapons as the function deals them
DealtCopies(state) ==
    Vals(AllIndividualWeapons(state.originalSubUnitData.weapons))

\* the copies dealt to virtual slot m of originalModels slots
SlotCopies(copies, originalModels, m) ==
    SelectSeq([i \in 1..Len(copies) |->
                  IF (i - 1) % originalModels = m - 1 THEN copies[i]
                  ELSE [copies[i] EXCEPT !.amount = 0]],
              LAMBDA w : w.amount = 1)

\* the copies are all the copies of the original weapons, by descending
\* goodness
DealtByGoodness(state, copies) ==
    /\ \A spec \in SpecsOf(state.originalSubUnitData.weapons) \cup SpecsOf(copies) :
          CopyCount(copies, spec)
            = CopyCount(state.originalSubUnitData.weapons, spec)
    /\ \A i \in 1..Len(copies) : \A j \in i..Len(copies) :
          calculateWeaponGoodness(copies[i]) >= calculateWeaponGoodness(copies[j])

\* `loadout` holds exactly the copies of the slots `kept`, each weapon
\* listed once
MergedFrom(loadout, copies, originalModels, kept) ==
    /\ \A i \in 1..Len(loadout) : \A j \in 1..Len(loadout) :
          i # j => [loadout[i] EXCEPT !.amount = 1] # [loadout[j] EXCEPT !.amount = 1]
    /\ \A spec \in SpecsOf(copies) \cup SpecsOf(loadout) :
          CopyCount(loadout, spec)
            = SumSeq([m \in 1..originalModels |->
                        IF m \in kept
                        THEN CopyCount(SlotCopies(copies, originalModels, m), spec)
                        ELSE 0])

\* `kept` are currentModels slots that no other slot exceeds in goodness
BestSlots(kept, copies, originalModels, currentModels) ==
    /\ Cardinality(kept) = currentModels
    /\ \A m \in kept : \A other \in (1..originalModels) \ kept :
          TotalGoodness(SlotCopies(copies, originalModels, other))
            <= TotalGoodness(SlotCopies(copies, originalModels, m))

LoadoutOfBestSlots(state, loadout, copies) ==
    /\ DealtByGoodness(state, copies)
    /\ \E kept \in SUBSET (1..state.originalSubUnitData.models) :
          /\ BestSlots(kept, copies, state.originalSubUnitData.models,
                       state.currentModelsInSubUnit)
          /\ MergedFrom(loadout, copies, state.originalSubUnitData.models, kept)

JoinedGroups ==
    {UnitGroup("Joined", subUnits) :
        subUnits \in
          UNION {{<<single, troops>>, <<troops, single>>} :
                    single \in {SubUnit("Captain", 1, 4, 4, <<Rifle(1), Knife(1)>>,
                                        Hero(h)) : h \in BOOLEAN},
                    troops \in {SubUnit("Troops", 2, 4, 4, <<Rifle(2), Knife(2)>>,
                                        Hero(h)) : h \in BOOLEAN}}}

InitJoined ==
    /\ \E g \in JoinedGroups :
          clusters =
            <<createUnitCluster(g, "attackers", 1, 3600, 2400, 3537, 2337),
              createUnitCluster(Raiders, "defenders", 2, 3600, 2600, 3537, 2537)>>
    /\ clusterCache = [attackers |-> <<1>>, defenders |-> <<2>>]
    /\ objectives = <<>>
    /\ currentTurn = "attackers"
    /\ currentRound = 1
    /\ playerWhoFinishedLastRoundFirst = Null
    /\ playerWhoStartedCurrentRound = "attackers"
    /\ pc = "fight"
    /\ act = NoAct
    /\ last = NoLast
    /\ hist = NoHist

\* the pairs of acting cluster and target
Opponents == {<<1, 2>>, <<2, 1>>}

\* aiExecuteShootAction(unitCluster, target) for clusters that stand next
\* to each other
ShootAtOpponent ==
    /\ pc = "fight" /\ Listed = {1, 2}
    /\ \E p \in Opponents :
          /\ \E r \in aiExecuteShootAction(Here, clusters[p[1]].side, p[1], p[2],
                                           NoContext, 0) :
                /\ clusters' = r.world.clusters
                /\ clusterCache' = r.world.clusterCache
          /\ last' = [op |-> "aiExecuteShootAction",
                      attacker |-> clusters[p[1]], target |-> clusters[p[2]],
                      calls |-> ShootCalls(clusters[p[1]], clusters[p[2]],
                                           NoContext, 0),
                      returnCalls |-> <<>>,
                      struck |-> clusters[p[2]]]
          /\ currentTurn' = clusters[p[1]].side
    /\ UNCHANGED <<objectives, currentRound, pc, act, hist,
                   playerWhoFinishedLastRoundFirst, playerWhoStartedCurrentRound>>

\* the world when the defender strikes back: the wounds of the charge are
\* applied
WhenStrikingBack(attacker, defender, damage) ==
    Struck(HasFought(Here, attacker), clusters[defender].side, defender, damage)

\* the melee of a charge, with the strikes and the return strikes made
MeleeFoughtBy(attacker, defender, r, back) ==
    [op |-> "aiExecuteMeleeAction",
     attacker |-> clusters[attacker], target |-> clusters[defender],
     calls |-> StrikeCalls(clusters[attacker], clusters[defender], "Charge"),
     returnCalls |-> IF r.struckBack
                     THEN ReturnStrikeCalls(back.clusters[attacker],
                                            back.clusters[defender])
                     ELSE <<>>,
     struck |-> back.clusters[defender]]

ChargeOpponent ==
    /\ pc = "fight" /\ Listed = {1, 2}
    /\ \E p \in Opponents :
          /\ \E r \in aiExecuteMeleeAction(Here, clusters[p[1]].side, p[1], p[2],
                                           "Charge") :
                /\ clusters' = r.world.clusters
                /\ clusterCache' = r.world.clusterCache
                /\ last' = MeleeFoughtBy(p[1], p[2], r,
                               WhenStrikingBack(p[1], p[2], r.damage))
          /\ currentTurn' = clusters[p[1]].side
    /\ UNCHANGED <<objectives, currentRound, pc, act, hist,
                   playerWhoFinishedLastRoundFirst, playerWhoStartedCurrentRound>>

NextJoined == ShootAtOpponent \/ ChargeOpponent

SpecJoined == InitJoined /\ [][NextJoined]_vars

\* the sub-unit definition belongs to a sub-unit of the cluster that still
\* has models
OfSurvivingSubUnit(cluster, subUnit) ==
    \E i \in DOMAIN cluster.unitGroupData.subUnits :
        /\ cluster.unitGroupData.subUnits[i] = subUnit
        /\ cluster.subUnitStates[i].currentModelsInSubUnit > 0

\* C36: a sub-unit without surviving models makes no attack: every shot of
\* a shooting action, every strike of the charging cluster and every return
\* strike of the charged cluster is made by a sub-unit that still has
\* models, also when a single-model sub-unit is dead and the rest lives
C36_DeadSubUnitsMakeNoAttacks ==
    last.op \in {"aiExecuteShootAction", "aiExecuteMeleeAction"} =>
        /\ \A k \in DOMAIN last.calls :
              OfSurvivingSubUnit(last.attacker, last.calls[k].attackerSubUnit)
        /\ \A k \in DOMAIN last.returnCalls :
              OfSurvivingSubUnit(last.struck, last.returnCalls[k].attackerSubUnit)

\* C37: the defender's saves are rolled with the definition of a sub-unit
\* of the defending cluster that still has models: those of the target in
\* a shooting action and for the strikes of a charge, and those of the
\* charging cluster in the return strike, also after one of two joined
\* sub-units is wiped out
C37_SavesOfSurvivingSubUnit ==
    last.op \in {"aiExecuteShootAction", "aiExecuteMeleeAction"} =>
        /\ \A k \in DOMAIN last.calls :
              OfSurvivingSubUnit(last.target, last.calls[k].defenderSubUnit)
        /\ \A k \in DOMAIN last.returnCalls :
              OfSurvivingSubUnit(last.attacker, last.returnCalls[k].defenderSubUnit)


(***************************************************************************)
(* Specification SpecDeadly: a single model with a ranged and a melee      *)
(* weapon of one attack each, with or without Deadly, shoots at and        *)
(* charges a unit of three models with one or two wounds each.             *)
(***************************************************************************)
Lance(deadly) ==
    Weapon("Lance", 1, 2400, 1, 0, [NoWeaponSpecial EXCEPT !.deadly = deadly])

Maul(deadly) ==
    Weapon("Maul", 1, 0, 1, 0, [NoWeaponSpecial EXCEPT !.deadly = deadly])

Executioners ==
    {UnitGroup("Executioner",
               <<SubUnit("Executioner", 1, 3, 3, <<Lance(deadly), Maul(deadly)>>,
                         Special({}, 0, 0))>>) : deadly \in {0, 2, 3}}

Recruits ==
    {UnitGroup("Recruits",
               <<SubUnit("Recruits", 3, 5, 5, <<Knife(1)>>, Special({}, tough, 0))>>) :
        tough \in {0, 2}}

InitDeadly ==
    /\ \E e \in Executioners, r \in Recruits :
          clusters =
            <<createUnitCluster(e, "attackers", 1, 3600, 2400, 3537, 2337),
              createUnitCluster(r, "defenders", 2, 3600, 2600, 3537, 2537)>>
    /\ clusterCache = [attackers |-> <<1>>, defenders |-> <<2>>]
    /\ objectives = <<>>
    /\ currentTurn = "attackers"
    /\ currentRound = 1
    /\ playerWhoFinishedLastRoundFirst = Null
    /\ playerWhoStartedCurrentRound = "attackers"
    /\ pc = "fight"
    /\ act = NoAct
    /\ last = NoLast
    /\ hist = NoHist

\* the attack of cluster 1 on cluster 2: the calls it made, the number of
\* saves that were failed and the target once the wounds were applied;
\* `routed` when a morale test then took the target off the board
Wounding(op, calls, failed, after, routed) ==
    [op |-> op, target |-> clusters[2], calls |-> calls,
     failedSaves |-> failed, after |-> after, routed |-> routed]

\* aiExecuteShootAction: one wound packet per failed save
ShootDeadly ==
    /\ pc = "fight" /\ Listed = {1, 2}
    /\ \E r \in aiExecuteShootAction(Here, currentTurn, 1, 2, NoContext, 0) :
          /\ clusters' = r.world.clusters
          /\ clusterCache' = r.world.clusterCache
          /\ last' = Wounding("aiExecuteShootAction",
                        ShootCalls(clusters[1], clusters[2], NoContext, 0),
                        Len(r.packets), r.world.clusters[2],
                        r.moraleTest /\ r.world.clusters[2].currentModels = 0)
    /\ UNCHANGED <<objectives, currentTurn, currentRound, pc, act, hist,
                   playerWhoFinishedLastRoundFirst, playerWhoStartedCurrentRound>>

\* the Deadly value of the weapon of a call (1 without Deadly)
DeadlyOf(c) == IF c.weapon.special.deadly # 0 THEN c.weapon.special.deadly ELSE 1

\* aiExecuteMeleeAction: the damage of the single strike is the Deadly value
\* for each failed save
ChargeDeadly ==
    /\ pc = "fight" /\ Listed = {1, 2}
    /\ \E r \in aiExecuteMeleeAction(Here, currentTurn, 1, 2, "Charge") :
       \E calls \in {StrikeCalls(clusters[1], clusters[2], "Charge")} :
          /\ clusters' = r.world.clusters
          /\ clusterCache' = r.world.clusterCache
          /\ last' = Wounding("aiExecuteMeleeAction", calls,
                        r.damage \div DeadlyOf(calls[1]),
                        r.fought.clusters[2], FALSE)
    /\ UNCHANGED <<objectives, currentTurn, currentRound, pc, act, hist,
                   playerWhoFinishedLastRoundFirst, playerWhoStartedCurrentRound>>

NextDeadly == ShootDeadly \/ ChargeDeadly

SpecDeadly == InitDeadly /\ [][NextDeadly]_vars

\* C38: one failed save removes at most one model of the defender, in a
\* shooting action and in the strikes of a charge alike: a Deadly(N) packet
\* goes whole to one model and what exceeds that model's remaining wounds is
\* discarded, never carried over to another model
C38_OneModelPerFailedSave ==
    (last.op \in {"aiExecuteShootAction", "aiExecuteMeleeAction"}
       /\ ~last.routed) =>
        last.target.currentModels - last.after.currentModels <= last.failedSaves

====
